---- MODULE Spec2Model ----
(***************************************************************************)
(* The tool library of app/custom_tools.py: get_stock_price,               *)
(* get_news_headlines, calculate_tip, convert_temperature, analyze_text    *)
(* and make_recommendation.                                                *)
(*                                                                         *)
(* A str is a sequence of one-character strings.  A float is an IEEE-754   *)
(* binary64 number [neg, m, e] of value (-1)^neg * m * 2^e, with m a       *)
(* 53-bit natural number (or zero); every arithmetic operation rounds its  *)
(* exact result to the nearest such number, ties to even, as Python's      *)
(* float does.  Infinities, NaN and subnormal numbers are outside the      *)
(* model: the inputs are bounded in magnitude.                             *)
(***************************************************************************)
EXTENDS Integers, Sequences, FiniteSets, TLC

\* ------------------------------------------------------------------------
\* Natural numbers of any size: little-endian sequences of 15-bit limbs,
\* the highest limb not zero (zero is the empty sequence).
\* ------------------------------------------------------------------------
LimbBits == 15
Base == 32768
MantBits == 53

RECURSIVE Pow2(_)
Pow2(k) == IF k = 0 THEN 1 ELSE 2 * Pow2(k - 1)

RECURSIVE Pow10(_)
Pow10(k) == IF k = 0 THEN 1 ELSE 10 * Pow10(k - 1)

RECURSIVE IntBitLen(_)
IntBitLen(n) == IF n = 0 THEN 0 ELSE 1 + IntBitLen(n \div 2)

RECURSIVE BNorm(_)
BNorm(a) ==
    IF a = <<>> THEN <<>>
    ELSE IF a[Len(a)] = 0 THEN BNorm(SubSeq(a, 1, Len(a) - 1))
    ELSE a

RECURSIVE BFromInt(_)
BFromInt(n) == IF n = 0 THEN <<>> ELSE <<n % Base>> \o BFromInt(n \div Base)

RECURSIVE BToInt(_)
BToInt(a) == IF a = <<>> THEN 0 ELSE Head(a) + Base * BToInt(Tail(a))

Limb(a, i) == IF i <= Len(a) THEN a[i] ELSE 0

RECURSIVE BAddC(_, _, _, _)
BAddC(a, b, i, c) ==
    IF i > Len(a) /\ i > Len(b)
    THEN (IF c = 0 THEN <<>> ELSE <<c>>)
    ELSE <<(Limb(a, i) + Limb(b, i) + c) % Base>>
         \o BAddC(a, b, i + 1, (Limb(a, i) + Limb(b, i) + c) \div Base)

BAdd(a, b) == BAddC(a, b, 1, 0)

RECURSIVE BSubC(_, _, _, _)
BSubC(a, b, i, br) ==
    IF i > Len(a) THEN <<>>
    ELSE <<(a[i] - Limb(b, i) - br + Base) % Base>>
         \o BSubC(a, b, i + 1, IF a[i] - Limb(b, i) - br < 0 THEN 1 ELSE 0)

\* a - b for a >= b
BSub(a, b) == BNorm(BSubC(a, b, 1, 0))

RECURSIVE BCmpAt(_, _, _)
BCmpAt(a, b, i) ==
    IF i = 0 THEN 0
    ELSE IF a[i] > b[i] THEN 1
    ELSE IF a[i] < b[i] THEN -1
    ELSE BCmpAt(a, b, i - 1)

\* 1, 0 or -1 as a > b, a = b or a < b
BCmp(a, b) ==
    IF Len(a) > Len(b) THEN 1
    ELSE IF Len(a) < Len(b) THEN -1
    ELSE BCmpAt(a, b, Len(a))

RECURSIVE BMulSmallC(_, _, _, _)
BMulSmallC(a, c, i, carry) ==
    IF i > Len(a)
    THEN (IF carry = 0 THEN <<>> ELSE <<carry>>)
    ELSE <<(a[i] * c + carry) % Base>>
         \o BMulSmallC(a, c, i + 1, (a[i] * c + carry) \div Base)

\* a * c for 0 <= c <= Base
BMulSmall(a, c) == BNorm(BMulSmallC(a, c, 1, 0))

RECURSIVE BMul(_, _)
BMul(a, b) ==
    IF a = <<>> \/ b = <<>> THEN <<>>
    ELSE BNorm(BAdd(BMulSmall(a, Head(b)), <<0>> \o BMul(a, Tail(b))))

RECURSIVE BDivAt(_, _, _, _, _)
BDivAt(a, c, i, r, q) ==
    IF i = 0 THEN [q |-> BNorm(q), r |-> r]
    ELSE BDivAt(a, c, i - 1, (r * Base + a[i]) % c,
                <<(r * Base + a[i]) \div c>> \o q)

\* quotient and remainder of a by c, for 1 <= c <= Base
BDivSmall(a, c) == BDivAt(a, c, Len(a), 0, <<>>)

BBitLen(a) ==
    IF a = <<>> THEN 0 ELSE LimbBits * (Len(a) - 1) + IntBitLen(a[Len(a)])

BOdd(a) == a # <<>> /\ a[1] % 2 = 1

\* a * 2^k
BShl(a, k) ==
    IF a = <<>> THEN <<>>
    ELSE [i \in 1..(k \div LimbBits) |-> 0] \o BMulSmall(a, Pow2(k % LimbBits))

\* floor(a / 2^k)
BShr(a, k) ==
    IF k \div LimbBits >= Len(a) THEN <<>>
    ELSE BDivSmall(SubSeq(a, (k \div LimbBits) + 1, Len(a)), Pow2(k % LimbBits)).q

\* (a + d) / 2^k rounded to the nearest natural number, ties to even, where
\* 0 <= d < 1 and sticky says d > 0; k >= 1
RoundShr(a, k, sticky) ==
    LET q == BShr(a, k)
        c == BCmp(BSub(a, BShl(q, k)), BShl(<<1>>, k - 1))
    IN  IF c > 0 \/ (c = 0 /\ (sticky \/ BOdd(q)))
        THEN BAdd(q, <<1>>)
        ELSE q

\* ------------------------------------------------------------------------
\* float: IEEE-754 binary64, round to nearest, ties to even
\* ------------------------------------------------------------------------
DZero(neg) == [neg |-> neg, m |-> <<>>, e |-> 0]

\* the float nearest to (-1)^neg * (M + d) * 2^e, 0 <= d < 1, sticky = (d > 0);
\* with sticky, M has more than MantBits + 1 bits
DRound(neg, M, e, sticky) ==
    IF M = <<>> THEN DZero(neg)
    ELSE IF BBitLen(M) <= MantBits
    THEN [neg |-> neg, m |-> BShl(M, MantBits - BBitLen(M)),
          e |-> e - (MantBits - BBitLen(M))]
    ELSE LET k == BBitLen(M) - MantBits
             r == RoundShr(M, k, sticky)
         IN  IF BBitLen(r) > MantBits
             THEN [neg |-> neg, m |-> BShr(r, 1), e |-> e + k + 1]
             ELSE [neg |-> neg, m |-> r, e |-> e + k]

\* float(n) for an int n
DInt(n) == DRound(n < 0, BFromInt(IF n < 0 THEN -n ELSE n), 0, FALSE)

\* the float nearest to (-1)^neg * N / 10^k, for a natural number N of any
\* size and 0 <= k <= 4: what float() makes of a decimal literal
DDecimalB(neg, N, k) ==
    LET d == BDivSmall(BShl(N, 5 * LimbBits), Pow10(k))
    IN  DRound(neg, d.q, -(5 * LimbBits), d.r # 0)

DDecimal(neg, n, k) == DDecimalB(neg, BFromInt(n), k)

DNeg(x) == [x EXCEPT !.neg = ~x.neg]

DIsZero(x) == x.m = <<>>

\* x + y
DAdd(x, y) ==
    IF DIsZero(x) THEN (IF DIsZero(y) THEN DZero(x.neg /\ y.neg) ELSE y)
    ELSE IF DIsZero(y) THEN x
    ELSE LET e == IF x.e < y.e THEN x.e ELSE y.e
             a == BShl(x.m, x.e - e)
             b == BShl(y.m, y.e - e)
             c == BCmp(a, b)
         IN  IF x.neg = y.neg THEN DRound(x.neg, BAdd(a, b), e, FALSE)
             ELSE IF c = 0 THEN DZero(FALSE)
             ELSE IF c > 0 THEN DRound(x.neg, BSub(a, b), e, FALSE)
             ELSE DRound(y.neg, BSub(b, a), e, FALSE)

\* x - y
DSub(x, y) == DAdd(x, DNeg(y))

\* x * y
DMul(x, y) ==
    IF DIsZero(x) \/ DIsZero(y) THEN DZero(x.neg # y.neg)
    ELSE DRound(x.neg # y.neg, BMul(x.m, y.m), x.e + y.e, FALSE)

\* x / c for an int c, 1 <= c < Base
DDivInt(x, c) ==
    IF DIsZero(x) THEN x
    ELSE LET d == BDivSmall(BShl(x.m, 2 * LimbBits), c)
         IN  DRound(x.neg, d.q, x.e - 2 * LimbBits, d.r # 0)

\* x < y
DLt(x, y) == LET d == DSub(x, y) IN d.neg /\ ~DIsZero(d)

\* ------------------------------------------------------------------------
\* str
\* ------------------------------------------------------------------------
DigitChar(d) == <<"0", "1", "2", "3", "4", "5", "6", "7", "8", "9">>[d + 1]

RECURSIVE DecDigits(_)
DecDigits(a) ==
    IF a = <<>> THEN <<>>
    ELSE DecDigits(BDivSmall(a, 10).q) \o <<DigitChar(BDivSmall(a, 10).r)>>

RECURSIVE PadZeros(_, _)
PadZeros(s, n) == IF Len(s) >= n THEN s ELSE PadZeros(<<"0">> \o s, n)

\* |x| * 10^nd rounded to the nearest natural number, ties to even
Scaled(x, nd) ==
    IF x.e >= 0 THEN BShl(BMulSmall(x.m, Pow10(nd)), x.e)
    ELSE RoundShr(BMulSmall(x.m, Pow10(nd)), -x.e, FALSE)

\* f"{x:.<nd>f}": the exact value of x rounded to nd decimals, ties to even,
\* with the sign of x (a negative x that rounds to zero prints as -0.00)
FormatFixed(x, nd) ==
    LET ds == PadZeros(DecDigits(Scaled(x, nd)), nd + 1)
    IN  (IF x.neg THEN <<"-">> ELSE <<>>)
        \o SubSeq(ds, 1, Len(ds) - nd)
        \o (IF nd > 0 THEN <<".">> \o SubSeq(ds, Len(ds) - nd + 1, Len(ds)) ELSE <<>>)

\* ------------------------------------------------------------------------
\* Exact arithmetic: integers [neg, mag] and rational numbers [num, den] of
\* any size, for stating what the float results are measured against
\* ------------------------------------------------------------------------
ZMake(neg, mag) == [neg |-> neg /\ mag # <<>>, mag |-> mag]

ZAdd(a, b) ==
    IF a.neg = b.neg THEN ZMake(a.neg, BAdd(a.mag, b.mag))
    ELSE IF BCmp(a.mag, b.mag) >= 0 THEN ZMake(a.neg, BSub(a.mag, b.mag))
    ELSE ZMake(b.neg, BSub(b.mag, a.mag))

ZMulB(a, n) == ZMake(a.neg, BMul(a.mag, n))

QMake(num, den) == [num |-> num, den |-> den]

\* the rational number (-1)^neg * n / 10^k
QDec(neg, n, k) == QMake(ZMake(neg, BFromInt(n)), BFromInt(Pow10(k)))

\* the rational number a decimal literal denotes
QOf(d) == QDec(d.neg, d.n, d.k)

\* the rational number a float is
QFloat(x) ==
    IF x.e >= 0 THEN QMake(ZMake(x.neg, BShl(x.m, x.e)), <<1>>)
    ELSE QMake(ZMake(x.neg, x.m), BShl(<<1>>, -x.e))

QNeg(p) == QMake(ZMake(~p.num.neg, p.num.mag), p.den)

QAbs(p) == QMake(ZMake(FALSE, p.num.mag), p.den)

QAdd(p, q) ==
    QMake(ZAdd(ZMulB(p.num, q.den), ZMulB(q.num, p.den)), BMul(p.den, q.den))

QSub(p, q) == QAdd(p, QNeg(q))

QMul(p, q) ==
    QMake(ZMake(p.num.neg # q.num.neg, BMul(p.num.mag, q.num.mag)),
          BMul(p.den, q.den))

\* p * c and p / c for an int c >= 1
QMulInt(p, c) == QMake(ZMulB(p.num, BFromInt(c)), p.den)

QDivInt(p, c) == QMake(p.num, BMul(p.den, BFromInt(c)))

QEq(p, q) == ZMulB(p.num, q.den) = ZMulB(q.num, p.den)

\* p <= q and p < q
QLe(p, q) == ~QSub(q, p).num.neg

QLt(p, q) == QSub(p, q).num.neg

\* repr(x), as the f-strings print a float argument: the shortest decimal that
\* float() reads back as x.  Defined for the floats whose shortest decimal has
\* one to four decimals, which the arguments of the model are.
repr_float(x) ==
    FormatFixed(x, CHOOSE k \in 1..4 :
                      /\ DDecimalB(x.neg, Scaled(x, k), k) = x
                      /\ \A j \in 1..(k - 1) : DDecimalB(x.neg, Scaled(x, j), j) # x)

\* str(n) for an int n
str_int(n) ==
    IF n = 0 THEN <<"0">>
    ELSE IF n < 0 THEN <<"-">> \o DecDigits(BFromInt(-n))
    ELSE DecDigits(BFromInt(n))

LowerLetters == <<"a", "b", "c", "d", "e", "f", "g", "h", "i", "j", "k", "l", "m", "n",
          "o", "p", "q", "r", "s", "t", "u", "v", "w", "x", "y", "z">>

UpperLetters == <<"A", "B", "C", "D", "E", "F", "G", "H", "I", "J", "K", "L", "M", "N",
          "O", "P", "Q", "R", "S", "T", "U", "V", "W", "X", "Y", "Z">>

upper_char(c) ==
    IF \E i \in 1..Len(LowerLetters) : LowerLetters[i] = c
    THEN UpperLetters[CHOOSE i \in 1..Len(LowerLetters) : LowerLetters[i] = c]
    ELSE c

lower_char(c) ==
    IF \E i \in 1..Len(UpperLetters) : UpperLetters[i] = c
    THEN LowerLetters[CHOOSE i \in 1..Len(UpperLetters) : UpperLetters[i] = c]
    ELSE c

\* s.upper() and s.lower()
upper(s) == [i \in 1..Len(s) |-> upper_char(s[i])]

lower(s) == [i \in 1..Len(s) |-> lower_char(s[i])]

\* sub in s
In(sub, s) ==
    \E i \in 0..(Len(s) - Len(sub)) : SubSeq(s, i + 1, i + Len(sub)) = sub

\* faulty variant: adjacent occurrences counted once
count_runs(s, c) ==
    Cardinality({i \in 1..Len(s) : s[i] = c /\ (i = 1 \/ s[i - 1] # c)})

\* s.count(c) for a character c
count(s, c) == Cardinality({i \in 1..Len(s) : s[i] = c})

\* faulty variant: nothing removed
remove_none(s, c) == s

\* s.replace(c, '') for a character c
remove_char(s, c) == SelectSeq(s, LAMBDA x : x # c)

\* the characters str.split() takes as separators
Whitespace == {" ", "\t", "\n", "\r", "\f"}

RECURSIVE split_from(_, _, _, _)
split_from(s, i, word, words) ==
    IF i > Len(s)
    THEN (IF word = <<>> THEN words ELSE Append(words, word))
    ELSE IF s[i] \in Whitespace
    THEN split_from(s, i + 1, <<>>, IF word = <<>> THEN words ELSE Append(words, word))
    ELSE split_from(s, i + 1, Append(word, s[i]), words)

\* faulty variant: split at the spaces alone
split_at_spaces(s) == split_from(remove_char(remove_char(s, "\t"), "\n"), 1, <<>>, <<>>)

\* s.split()
split(s) == split_from(s, 1, <<>>, <<>>)

\* ------------------------------------------------------------------------
\* The outcome of a call
\* ------------------------------------------------------------------------
Returned(v) == [status |-> "returned", value |-> v]

Raised(exc) == [status |-> "raised", value |-> exc]

\* ------------------------------------------------------------------------
\* The random module
\* ------------------------------------------------------------------------
\* faulty variant: the range laid out from b upwards
uniform_from_upper(a, b, r) == DAdd(DInt(b), DMul(DInt(b - a), r))

\* random.uniform(a, b) for ints a, b, given the float r that random.random()
\* returns, 0 <= r < 1: a + (b - a) * r
uniform(a, b, r) == DAdd(DInt(a), DMul(DInt(b - a), r))

\* faulty variant: every draw made from the whole population
sample_with_replacement(population, k, perm) ==
    IF k < 0 \/ k > Len(population)
    THEN Raised(<<"V", "a", "l", "u", "e", "E", "r", "r", "o", "r">>)
    ELSE Returned([i \in 1..k |-> population[perm[1]]])

\* random.sample(population, k), given the order perm in which the random
\* source visits the population
sample(population, k, perm) ==
    IF k < 0 \/ k > Len(population)
    THEN Raised(<<"V", "a", "l", "u", "e", "E", "r", "r", "o", "r">>)
    ELSE Returned([i \in 1..k |-> population[perm[i]]])

\* faulty variant: the first element whatever the index drawn
choice_first(seq, i) == seq[1]

\* random.choice(seq), given the index i the random source picks
choice(seq, i) == seq[i]

\* ------------------------------------------------------------------------
\* get_stock_price
\* ------------------------------------------------------------------------
prices ==
    (<<"A", "A", "P", "L">> :> DDecimal(FALSE, 17850, 2))
    @@ (<<"G", "O", "O", "G", "L">> :> DDecimal(FALSE, 14230, 2))
    @@ (<<"M", "S", "F", "T">> :> DDecimal(FALSE, 38020, 2))
    @@ (<<"T", "S", "L", "A">> :> DDecimal(FALSE, 24560, 2))

\* faulty variant: the table looked up by the symbol as given
get_stock_price_exact_case(symbol, r) ==
    LET price == DAdd(prices[symbol], uniform(-5, 5, r))
    IN  IF symbol \in DOMAIN prices
        THEN Returned(<<"T", "h", "e", " ", "c", "u", "r", "r", "e", "n", "t", " ", "p", "r",
          "i", "c", "e", " ", "o", "f", " ">> \o upper(symbol) \o <<" ", "i", "s", " ", "$">>
                      \o FormatFixed(price, 2))
        ELSE Returned(<<"S", "o", "r", "r", "y", ",", " ", "I", " ", "d", "o", "n", "'", "t",
          " ", "h", "a", "v", "e", " ", "p", "r", "i", "c", "e", " ", "i", "n",
          "f", "o", "r", "m", "a", "t", "i", "o", "n", " ", "f", "o", "r", " ">> \o symbol
                      \o <<".", " ", "T", "r", "y", " ", "A", "A", "P", "L", ",", " ", "G", "O",
          "O", "G", "L", ",", " ", "M", "S", "F", "T", ",", " ", "o", "r", " ",
          "T", "S", "L", "A", ".">>)

\* faulty variant: a symbol missing from the table priced from 0
get_stock_price_default_price(symbol, r) ==
    LET symbol_upper == upper(symbol)
        price == DAdd(IF symbol_upper \in DOMAIN prices
                      THEN prices[symbol_upper] ELSE DInt(0),
                      uniform(-5, 5, r))
    IN  Returned(<<"T", "h", "e", " ", "c", "u", "r", "r", "e", "n", "t", " ", "p", "r",
          "i", "c", "e", " ", "o", "f", " ">> \o symbol_upper \o <<" ", "i", "s", " ", "$">>
                 \o FormatFixed(price, 2))

get_stock_price(symbol, r) ==
    LET symbol_upper == upper(symbol)
        price == DAdd(prices[symbol_upper], uniform(-5, 5, r))
    IN  IF symbol_upper \in DOMAIN prices
        THEN Returned(<<"T", "h", "e", " ", "c", "u", "r", "r", "e", "n", "t", " ", "p", "r",
          "i", "c", "e", " ", "o", "f", " ">> \o symbol_upper \o <<" ", "i", "s", " ", "$">>
                      \o FormatFixed(price, 2))
        ELSE Returned(<<"S", "o", "r", "r", "y", ",", " ", "I", " ", "d", "o", "n", "'", "t",
          " ", "h", "a", "v", "e", " ", "p", "r", "i", "c", "e", " ", "i", "n",
          "f", "o", "r", "m", "a", "t", "i", "o", "n", " ", "f", "o", "r", " ">> \o symbol
                      \o <<".", " ", "T", "r", "y", " ", "A", "A", "P", "L", ",", " ", "G", "O",
          "O", "G", "L", ",", " ", "M", "S", "F", "T", ",", " ", "o", "r", " ",
          "T", "S", "L", "A", ".">>)

\* ------------------------------------------------------------------------
\* get_news_headlines
\* ------------------------------------------------------------------------
\* the dict in its insertion order, which is the order the loop visits it in
headlines_db == <<
    [category |-> <<"t", "e", "c", "h", "n", "o", "l", "o", "g", "y">>, headlines |-> <<
        <<"N", "e", "w", " ", "A", "I", " ", "b", "r", "e", "a", "k", "t", "h",
          "r", "o", "u", "g", "h", " ", "a", "n", "n", "o", "u", "n", "c", "e",
          "d", " ", "b", "y", " ", "m", "a", "j", "o", "r", " ", "t", "e", "c",
          "h", " ", "c", "o", "m", "p", "a", "n", "y">>,
        <<"S", "m", "a", "r", "t", "p", "h", "o", "n", "e", " ", "s", "a", "l",
          "e", "s", " ", "r", "e", "a", "c", "h", " ", "r", "e", "c", "o", "r",
          "d", " ", "h", "i", "g", "h", " ", "i", "n", " ", "Q", "4">>,
        <<"C", "y", "b", "e", "r", "s", "e", "c", "u", "r", "i", "t", "y", " ",
          "e", "x", "p", "e", "r", "t", "s", " ", "w", "a", "r", "n", " ", "o",
          "f", " ", "n", "e", "w", " ", "t", "h", "r", "e", "a", "t">>,
        <<"T", "e", "c", "h", " ", "g", "i", "a", "n", "t", " ", "l", "a", "u",
          "n", "c", "h", "e", "s", " ", "r", "e", "v", "o", "l", "u", "t", "i",
          "o", "n", "a", "r", "y", " ", "p", "r", "o", "d", "u", "c", "t">>>>],
    [category |-> <<"s", "p", "o", "r", "t", "s">>, headlines |-> <<
        <<"L", "o", "c", "a", "l", " ", "t", "e", "a", "m", " ", "w", "i", "n",
          "s", " ", "c", "h", "a", "m", "p", "i", "o", "n", "s", "h", "i", "p",
          " ", "i", "n", " ", "d", "r", "a", "m", "a", "t", "i", "c", " ", "f",
          "i", "n", "i", "s", "h">>,
        <<"S", "t", "a", "r", " ", "p", "l", "a", "y", "e", "r", " ", "s", "i",
          "g", "n", "s", " ", "r", "e", "c", "o", "r", "d", "-", "b", "r", "e",
          "a", "k", "i", "n", "g", " ", "c", "o", "n", "t", "r", "a", "c", "t">>,
        <<"O", "l", "y", "m", "p", "i", "c", " ", "g", "a", "m", "e", "s", " ",
          "p", "r", "e", "p", "a", "r", "a", "t", "i", "o", "n", "s", " ", "u",
          "n", "d", "e", "r", "w", "a", "y">>,
        <<"U", "n", "d", "e", "r", "d", "o", "g", " ", "t", "e", "a", "m", " ",
          "p", "u", "l", "l", "s", " ", "o", "f", "f", " ", "m", "a", "j", "o",
          "r", " ", "u", "p", "s", "e", "t">>>>],
    [category |-> <<"b", "u", "s", "i", "n", "e", "s", "s">>, headlines |-> <<
        <<"S", "t", "o", "c", "k", " ", "m", "a", "r", "k", "e", "t", " ", "r",
          "e", "a", "c", "h", "e", "s", " ", "n", "e", "w", " ", "a", "l", "l",
          "-", "t", "i", "m", "e", " ", "h", "i", "g", "h">>,
        <<"M", "a", "j", "o", "r", " ", "m", "e", "r", "g", "e", "r", " ", "a",
          "n", "n", "o", "u", "n", "c", "e", "d", " ", "b", "e", "t", "w", "e",
          "e", "n", " ", "i", "n", "d", "u", "s", "t", "r", "y", " ", "l", "e",
          "a", "d", "e", "r", "s">>,
        <<"S", "t", "a", "r", "t", "u", "p", " ", "r", "a", "i", "s", "e", "s",
          " ", "$", "1", "0", "0", "M", " ", "i", "n", " ", "S", "e", "r", "i",
          "e", "s", " ", "B", " ", "f", "u", "n", "d", "i", "n", "g">>,
        <<"E", "c", "o", "n", "o", "m", "i", "c", " ", "i", "n", "d", "i", "c",
          "a", "t", "o", "r", "s", " ", "s", "h", "o", "w", " ", "s", "t", "r",
          "o", "n", "g", " ", "g", "r", "o", "w", "t", "h">>>>] >>

\* headlines_db[key]
headlines_of(key) ==
    headlines_db[CHOOSE i \in 1..Len(headlines_db) : headlines_db[i].category = key].headlines

\* faulty variant: only the topic looked for in the category
first_match_topic_in_category(topic_lower) ==
    LET hits == {i \in 1..Len(headlines_db) :
                    In(topic_lower, headlines_db[i].category)}
    IN  IF hits = {} THEN <<>>
        ELSE headlines_db[CHOOSE i \in hits : \A j \in hits : i <= j].headlines

\* faulty variant: the loop not left at the first match, the last one stays
first_match_last(topic_lower) ==
    LET hits == {i \in 1..Len(headlines_db) :
                    \/ In(topic_lower, headlines_db[i].category)
                    \/ In(headlines_db[i].category, topic_lower)}
    IN  IF hits = {} THEN <<>>
        ELSE headlines_db[CHOOSE i \in hits : \A j \in hits : j <= i].headlines

\* the loop over the categories: the headlines of the first category the
\* topic matches, [] when it matches none
first_match(topic_lower) ==
    LET hits == {i \in 1..Len(headlines_db) :
                    \/ In(topic_lower, headlines_db[i].category)
                    \/ In(headlines_db[i].category, topic_lower)}
    IN  IF hits = {} THEN <<>>
        ELSE headlines_db[CHOOSE i \in hits : \A j \in hits : i <= j].headlines

\* the headlines the selection is made from
matching_headlines(topic) ==
    IF first_match(lower(topic)) = <<>>
    THEN headlines_of(<<"t", "e", "c", "h", "n", "o", "l", "o", "g", "y">>)
    ELSE first_match(lower(topic))

RECURSIVE numbered(_, _)
numbered(selected, i) ==
    IF i > Len(selected) THEN <<>>
    ELSE str_int(i) \o <<".", " ">> \o selected[i] \o <<"\n">> \o numbered(selected, i + 1)

\* faulty variant: the request not clamped
min_unclamped(a, b) == a

min(a, b) == IF a < b THEN a ELSE b

get_news_headlines(topic, num_headlines, perm) ==
    LET pool == matching_headlines(topic)
        selected == sample(pool, min(num_headlines, Len(pool)), perm)
    IN  IF selected.status = "raised" THEN selected
        ELSE Returned(<<"T", "o", "p", " ">> \o str_int(Len(selected.value)) \o <<" ", "h", "e", "a", "d", "l", "i", "n", "e", "s", " ", "f", "o", "r",
          " ", "'">>
                      \o topic \o <<"'", ":", "\n">> \o numbered(selected.value, 1))

\* ------------------------------------------------------------------------
\* calculate_tip
\* ------------------------------------------------------------------------
\* faulty variant: the percentage validated before the bill
tip_error_percentage_first(bill_amount, tip_percentage) ==
    IF DLt(tip_percentage, DInt(0)) \/ DLt(DInt(100), tip_percentage)
    THEN <<"E", "r", "r", "o", "r", ":", " ", "T", "i", "p", " ", "p", "e", "r",
          "c", "e", "n", "t", "a", "g", "e", " ", "m", "u", "s", "t", " ", "b",
          "e", " ", "b", "e", "t", "w", "e", "e", "n", " ", "0", " ", "a", "n",
          "d", " ", "1", "0", "0", ".">>
    ELSE IF DLt(bill_amount, DInt(0))
    THEN <<"E", "r", "r", "o", "r", ":", " ", "B", "i", "l", "l", " ", "a", "m",
          "o", "u", "n", "t", " ", "c", "a", "n", "n", "o", "t", " ", "b", "e",
          " ", "n", "e", "g", "a", "t", "i", "v", "e", ".">>
    ELSE <<>>

\* faulty variant: 0 and 100 rejected
tip_error_bounds_excluded(bill_amount, tip_percentage) ==
    IF DLt(bill_amount, DInt(0))
    THEN <<"E", "r", "r", "o", "r", ":", " ", "B", "i", "l", "l", " ", "a", "m",
          "o", "u", "n", "t", " ", "c", "a", "n", "n", "o", "t", " ", "b", "e",
          " ", "n", "e", "g", "a", "t", "i", "v", "e", ".">>
    ELSE IF ~DLt(DInt(0), tip_percentage) \/ ~DLt(tip_percentage, DInt(100))
    THEN <<"E", "r", "r", "o", "r", ":", " ", "T", "i", "p", " ", "p", "e", "r",
          "c", "e", "n", "t", "a", "g", "e", " ", "m", "u", "s", "t", " ", "b",
          "e", " ", "b", "e", "t", "w", "e", "e", "n", " ", "0", " ", "a", "n",
          "d", " ", "1", "0", "0", ".">>
    ELSE <<>>

\* the two validations; "" when both pass
tip_error(bill_amount, tip_percentage) ==
    IF DLt(bill_amount, DInt(0))
    THEN <<"E", "r", "r", "o", "r", ":", " ", "B", "i", "l", "l", " ", "a", "m",
          "o", "u", "n", "t", " ", "c", "a", "n", "n", "o", "t", " ", "b", "e",
          " ", "n", "e", "g", "a", "t", "i", "v", "e", ".">>
    ELSE IF DLt(tip_percentage, DInt(0)) \/ DLt(DInt(100), tip_percentage)
    THEN <<"E", "r", "r", "o", "r", ":", " ", "T", "i", "p", " ", "p", "e", "r",
          "c", "e", "n", "t", "a", "g", "e", " ", "m", "u", "s", "t", " ", "b",
          "e", " ", "b", "e", "t", "w", "e", "e", "n", " ", "0", " ", "a", "n",
          "d", " ", "1", "0", "0", ".">>
    ELSE <<>>

\* faulty variant: the percentage not divided by 100
tip_of_percentage_points(bill_amount, tip_percentage) ==
    DMul(bill_amount, tip_percentage)

\* tip_amount = bill_amount * (tip_percentage / 100)
tip_of(bill_amount, tip_percentage) ==
    DMul(bill_amount, DDivInt(tip_percentage, 100))

calculate_tip(bill_amount, tip_percentage) ==
    LET tip_amount == tip_of(bill_amount, tip_percentage)
        total_amount == DAdd(bill_amount, tip_amount)
    IN  IF tip_error(bill_amount, tip_percentage) # <<>>
        THEN Returned(tip_error(bill_amount, tip_percentage))
        ELSE Returned(<<"B", "i", "l", "l", " ", "A", "m", "o", "u", "n", "t", ":", " ", "$">> \o FormatFixed(bill_amount, 2) \o <<"\n">>
                      \o <<"T", "i", "p", " ", "(">> \o repr_float(tip_percentage) \o <<"%", ")", ":", " ", "$">>
                      \o FormatFixed(tip_amount, 2) \o <<"\n">>
                      \o <<"T", "o", "t", "a", "l", ":", " ", "$">> \o FormatFixed(total_amount, 2))

\* ------------------------------------------------------------------------
\* convert_temperature
\* ------------------------------------------------------------------------
\* faulty variant: 9/5 for 5/9
to_celsius_inverted_ratio(value, from_unit) ==
    IF from_unit = <<"F">> THEN DDivInt(DMul(DSub(value, DInt(32)), DInt(9)), 5)
    ELSE IF from_unit = <<"K">> THEN DSub(value, DDecimal(FALSE, 27315, 2))
    ELSE value

\* faulty variant: the unit compared without regard to letter case
to_celsius_any_case(value, from_unit) ==
    IF upper(from_unit) = <<"F">> THEN DDivInt(DMul(DSub(value, DInt(32)), DInt(5)), 9)
    ELSE IF upper(from_unit) = <<"K">> THEN DSub(value, DDecimal(FALSE, 27315, 2))
    ELSE value

\* the first if chain: the value in Celsius
to_celsius(value, from_unit) ==
    IF from_unit = <<"F">> THEN DDivInt(DMul(DSub(value, DInt(32)), DInt(5)), 9)
    ELSE IF from_unit = <<"K">> THEN DSub(value, DDecimal(FALSE, 27315, 2))
    ELSE value

\* the second if chain: the Celsius value in the target unit
from_celsius(celsius, to_unit) ==
    IF to_unit = <<"F">> THEN DAdd(DDivInt(DMul(celsius, DInt(9)), 5), DInt(32))
    ELSE IF to_unit = <<"K">> THEN DAdd(celsius, DDecimal(FALSE, 27315, 2))
    ELSE celsius

convert_temperature(value, from_unit, to_unit) ==
    LET celsius == to_celsius(value, from_unit)
        result == from_celsius(celsius, to_unit)
    IN  Returned(repr_float(value) \o <<"°">> \o from_unit \o <<" ", "=", " ">>
                 \o FormatFixed(result, 2) \o <<"°">> \o to_unit)

\* The same two if chains over the rational numbers: what the expressions of
\* convert_temperature compute when no operation rounds
exact_to_celsius(value, from_unit) ==
    IF from_unit = <<"F">>
    THEN QDivInt(QMulInt(QSub(value, QDec(FALSE, 32, 0)), 5), 9)
    ELSE IF from_unit = <<"K">> THEN QSub(value, QDec(FALSE, 27315, 2))
    ELSE value

\* faulty variant: 273 for 273.15
exact_from_celsius_rounded_offset(celsius, to_unit) ==
    IF to_unit = <<"F">>
    THEN QAdd(QDivInt(QMulInt(celsius, 9), 5), QDec(FALSE, 32, 0))
    ELSE IF to_unit = <<"K">> THEN QAdd(celsius, QDec(FALSE, 273, 0))
    ELSE celsius

exact_from_celsius(celsius, to_unit) ==
    IF to_unit = <<"F">>
    THEN QAdd(QDivInt(QMulInt(celsius, 9), 5), QDec(FALSE, 32, 0))
    ELSE IF to_unit = <<"K">> THEN QAdd(celsius, QDec(FALSE, 27315, 2))
    ELSE celsius

exact_convert(value, from_unit, to_unit) ==
    exact_from_celsius(exact_to_celsius(value, from_unit), to_unit)

\* ------------------------------------------------------------------------
\* analyze_text
\* ------------------------------------------------------------------------
analyze_text(text) ==
    LET words == split(text)
        sentences == count(text, ".") + count(text, "!") + count(text, "?")
        characters == Len(text)
        characters_no_spaces == Len(remove_char(text, " "))
        avg_word_length == IF words # <<>>
                           THEN DDivInt(DInt(characters_no_spaces), Len(words))
                           ELSE DInt(0)
    IN  Returned(<<"T", "e", "x", "t", " ", "A", "n", "a", "l", "y", "s", "i", "s", ":",
          "\n">>
                 \o <<"-", " ", "C", "h", "a", "r", "a", "c", "t", "e", "r", "s", ":", " ">> \o str_int(characters) \o <<" ", "(", "i", "n", "c", "l", "u", "d", "i", "n", "g", " ", "s", "p",
          "a", "c", "e", "s", ")", "\n">>
                 \o <<"-", " ", "C", "h", "a", "r", "a", "c", "t", "e", "r", "s", ":", " ">> \o str_int(characters_no_spaces)
                 \o <<" ", "(", "e", "x", "c", "l", "u", "d", "i", "n", "g", " ", "s", "p",
          "a", "c", "e", "s", ")", "\n">>
                 \o <<"-", " ", "W", "o", "r", "d", "s", ":", " ">> \o str_int(Len(words)) \o <<"\n">>
                 \o <<"-", " ", "S", "e", "n", "t", "e", "n", "c", "e", "s", ":", " ">> \o str_int(sentences) \o <<"\n">>
                 \o <<"-", " ", "A", "v", "e", "r", "a", "g", "e", " ", "w", "o", "r", "d",
          " ", "l", "e", "n", "g", "t", "h", ":", " ">> \o FormatFixed(avg_word_length, 1)
                 \o <<" ", "c", "h", "a", "r", "a", "c", "t", "e", "r", "s">>)

\* ------------------------------------------------------------------------
\* make_recommendation
\* ------------------------------------------------------------------------
recommendations ==
    (<<"m", "o", "v", "i", "e">> :> <<
        [name |-> <<"T", "h", "e", " ", "S", "h", "a", "w", "s", "h", "a", "n", "k", " ",
          "R", "e", "d", "e", "m", "p", "t", "i", "o", "n">>,
         description |-> <<"A", " ", "t", "i", "m", "e", "l", "e", "s", "s", " ", "c", "l", "a",
          "s", "s", "i", "c", " ", "a", "b", "o", "u", "t", " ", "h", "o", "p",
          "e", " ", "a", "n", "d", " ", "f", "r", "i", "e", "n", "d", "s", "h",
          "i", "p">>],
        [name |-> <<"I", "n", "c", "e", "p", "t", "i", "o", "n">>, description |-> <<"M", "i", "n", "d", "-", "b", "e", "n", "d", "i", "n", "g", " ", "s",
          "c", "i", "-", "f", "i", " ", "t", "h", "r", "i", "l", "l", "e", "r">>],
        [name |-> <<"P", "a", "r", "a", "s", "i", "t", "e">>, description |-> <<"A", "w", "a", "r", "d", "-", "w", "i", "n", "n", "i", "n", "g", " ",
          "s", "o", "c", "i", "a", "l", " ", "c", "o", "m", "m", "e", "n", "t",
          "a", "r", "y">>]>>)
    @@ (<<"r", "e", "s", "t", "a", "u", "r", "a", "n", "t">> :> <<
        [name |-> <<"T", "h", "e", " ", "I", "t", "a", "l", "i", "a", "n", " ", "C", "o",
          "r", "n", "e", "r">>,
         description |-> <<"A", "u", "t", "h", "e", "n", "t", "i", "c", " ", "p", "a", "s", "t",
          "a", " ", "a", "n", "d", " ", "c", "o", "z", "y", " ", "a", "t", "m",
          "o", "s", "p", "h", "e", "r", "e">>],
        [name |-> <<"S", "u", "s", "h", "i", " ", "M", "a", "s", "t", "e", "r">>, description |-> <<"F", "r", "e", "s", "h", " ", "s", "u", "s", "h", "i", " ", "a", "n",
          "d", " ", "m", "o", "d", "e", "r", "n", " ", "a", "m", "b", "i", "a",
          "n", "c", "e">>],
        [name |-> <<"G", "r", "e", "e", "n", " ", "L", "e", "a", "f">>, description |-> <<"H", "e", "a", "l", "t", "h", "y", " ", "v", "e", "g", "e", "t", "a",
          "r", "i", "a", "n", " ", "o", "p", "t", "i", "o", "n", "s">>]>>)
    @@ (<<"b", "o", "o", "k">> :> <<
        [name |-> <<"P", "r", "o", "j", "e", "c", "t", " ", "H", "a", "i", "l", " ", "M",
          "a", "r", "y">>, description |-> <<"E", "x", "c", "i", "t", "i", "n", "g", " ", "s", "c", "i", "-", "f",
          "i", " ", "a", "d", "v", "e", "n", "t", "u", "r", "e">>],
        [name |-> <<"A", "t", "o", "m", "i", "c", " ", "H", "a", "b", "i", "t", "s">>,
         description |-> <<"P", "r", "a", "c", "t", "i", "c", "a", "l", " ", "g", "u", "i", "d",
          "e", " ", "t", "o", " ", "b", "u", "i", "l", "d", "i", "n", "g", " ",
          "g", "o", "o", "d", " ", "h", "a", "b", "i", "t", "s">>],
        [name |-> <<"T", "h", "e", " ", "M", "i", "d", "n", "i", "g", "h", "t", " ", "L",
          "i", "b", "r", "a", "r", "y">>, description |-> <<"T", "h", "o", "u", "g", "h", "t", "-", "p", "r", "o", "v", "o", "k",
          "i", "n", "g", " ", "f", "i", "c", "t", "i", "o", "n">>]>>)

\* faulty variant: a part of a category's name taken for the category
make_recommendation_partial_match(category, preferences, pick) ==
    LET category_lower ==
            IF \E c \in DOMAIN recommendations : In(lower(category), c)
            THEN CHOOSE c \in DOMAIN recommendations : In(lower(category), c)
            ELSE lower(category)
        chosen == choice(recommendations[category_lower], pick)
    IN  IF category_lower \in DOMAIN recommendations
        THEN Returned(<<"I", " ", "r", "e", "c", "o", "m", "m", "e", "n", "d", ":", " ">> \o chosen.name \o <<"\n">> \o chosen.description
                      \o (IF preferences # <<>>
                          THEN <<"\n", "\n", "B", "a", "s", "e", "d", " ", "o", "n", " ", "y", "o",
          "u", "r", " ", "p", "r", "e", "f", "e", "r", "e", "n", "c", "e", "s",
          ":", " ">> \o preferences
                          ELSE <<>>))
        ELSE Returned(<<"S", "o", "r", "r", "y", ",", " ", "I", " ", "d", "o", "n", "'", "t",
          " ", "h", "a", "v", "e", " ", "r", "e", "c", "o", "m", "m", "e", "n",
          "d", "a", "t", "i", "o", "n", "s", " ", "f", "o", "r", " ", "'">> \o category
                      \o <<"'", ".", " ", "T", "r", "y", " ", "'", "m", "o", "v", "i", "e", "'",
          ",", " ", "'", "r", "e", "s", "t", "a", "u", "r", "a", "n", "t", "'",
          ",", " ", "o", "r", " ", "'", "b", "o", "o", "k", "'", ".">>)

\* faulty variant: the note added without looking at the preferences
make_recommendation_note_always(category, preferences, pick) ==
    LET category_lower == lower(category)
        chosen == choice(recommendations[category_lower], pick)
    IN  IF category_lower \in DOMAIN recommendations
        THEN Returned(<<"I", " ", "r", "e", "c", "o", "m", "m", "e", "n", "d", ":", " ">> \o chosen.name \o <<"\n">> \o chosen.description
                      \o <<"\n", "\n", "B", "a", "s", "e", "d", " ", "o", "n", " ", "y", "o",
          "u", "r", " ", "p", "r", "e", "f", "e", "r", "e", "n", "c", "e", "s",
          ":", " ">> \o preferences)
        ELSE Returned(<<"S", "o", "r", "r", "y", ",", " ", "I", " ", "d", "o", "n", "'", "t",
          " ", "h", "a", "v", "e", " ", "r", "e", "c", "o", "m", "m", "e", "n",
          "d", "a", "t", "i", "o", "n", "s", " ", "f", "o", "r", " ", "'">> \o category
                      \o <<"'", ".", " ", "T", "r", "y", " ", "'", "m", "o", "v", "i", "e", "'",
          ",", " ", "'", "r", "e", "s", "t", "a", "u", "r", "a", "n", "t", "'",
          ",", " ", "o", "r", " ", "'", "b", "o", "o", "k", "'", ".">>)

make_recommendation(category, preferences, pick) ==
    LET category_lower == lower(category)
        chosen == choice(recommendations[category_lower], pick)
    IN  IF category_lower \in DOMAIN recommendations
        THEN Returned(<<"I", " ", "r", "e", "c", "o", "m", "m", "e", "n", "d", ":", " ">> \o chosen.name \o <<"\n">> \o chosen.description
                      \o (IF preferences # <<>>
                          THEN <<"\n", "\n", "B", "a", "s", "e", "d", " ", "o", "n", " ", "y", "o",
          "u", "r", " ", "p", "r", "e", "f", "e", "r", "e", "n", "c", "e", "s",
          ":", " ">> \o preferences
                          ELSE <<>>))
        ELSE Returned(<<"S", "o", "r", "r", "y", ",", " ", "I", " ", "d", "o", "n", "'", "t",
          " ", "h", "a", "v", "e", " ", "r", "e", "c", "o", "m", "m", "e", "n",
          "d", "a", "t", "i", "o", "n", "s", " ", "f", "o", "r", " ", "'">> \o category
                      \o <<"'", ".", " ", "T", "r", "y", " ", "'", "m", "o", "v", "i", "e", "'",
          ",", " ", "'", "r", "e", "s", "t", "a", "u", "r", "a", "n", "t", "'",
          ",", " ", "o", "r", " ", "'", "b", "o", "o", "k", "'", ".">>)

\* ------------------------------------------------------------------------
\* The agents.  An agent is written as the record of what its constructor is
\* given: its name, its kind (Agent, SequentialAgent, ParallelAgent), the
\* session-state keys its instruction names in braces, its tools, its
\* output_key and its sub_agents.
\* ------------------------------------------------------------------------
None == "None"

LlmAgent(name, instruction, tools, output_key, sub_agents) ==
    [name |-> name, kind |-> "Agent", instruction |-> instruction, tools |-> tools,
     output_key |-> output_key, sub_agents |-> sub_agents]

SequentialAgent(name, sub_agents) ==
    [name |-> name, kind |-> "SequentialAgent", instruction |-> {}, tools |-> {},
     output_key |-> None, sub_agents |-> sub_agents]

ParallelAgent(name, sub_agents) ==
    [name |-> name, kind |-> "ParallelAgent", instruction |-> {}, tools |-> {},
     output_key |-> None, sub_agents |-> sub_agents]

\* --- agent_sequential ------------------------------------------------------
research_collector ==
    LlmAgent("research_collector", {}, {"get_news_headlines"}, "research_findings", <<>>)

content_drafter ==
    LlmAgent("content_drafter", {"research_findings"}, {}, "draft_content", <<>>)

content_polisher ==
    LlmAgent("content_polisher", {"draft_content"}, {"analyze_text"}, "final_content", <<>>)

\* faulty variant: the drafter listed before the collector
content_pipeline_drafter_first ==
    SequentialAgent("content_creation_pipeline",
                    <<content_drafter, research_collector, content_polisher>>)

content_pipeline ==
    SequentialAgent("content_creation_pipeline",
                    <<research_collector, content_drafter, content_polisher>>)

root_agent_sequential ==
    LlmAgent("content_creator", {}, {}, None, <<content_pipeline>>)

\* --- agent_parallel --------------------------------------------------------
tech_expert ==
    LlmAgent("tech_expert", {}, {"get_news_headlines", "get_stock_price"},
             "tech_analysis", <<>>)

\* faulty variant: the output_key of the other expert
business_expert_tech_key ==
    LlmAgent("business_expert", {}, {"get_news_headlines", "get_stock_price"},
             "tech_analysis", <<>>)

business_expert ==
    LlmAgent("business_expert", {}, {"get_news_headlines", "get_stock_price"},
             "business_analysis", <<>>)

parallel_experts ==
    ParallelAgent("parallel_research_team", <<tech_expert, business_expert>>)

synthesizer ==
    LlmAgent("synthesizer", {"tech_analysis", "business_analysis"}, {}, None, <<>>)

root_agent_parallel ==
    LlmAgent("multi_perspective_analyst", {}, {}, None, <<parallel_experts, synthesizer>>)

\* --- agent_hierarchical ----------------------------------------------------
stock_analyst ==
    LlmAgent("stock_analyst", {}, {"get_stock_price", "get_news_headlines"}, None, <<>>)

financial_news_analyst ==
    LlmAgent("financial_news_analyst", {}, {"get_news_headlines"}, None, <<>>)

recommendation_specialist ==
    LlmAgent("recommendation_specialist", {}, {"make_recommendation"}, None, <<>>)

calculation_assistant ==
    LlmAgent("calculation_assistant", {}, {"calculate_tip", "convert_temperature"},
             None, <<>>)

content_analyst ==
    LlmAgent("content_analyst", {}, {"analyze_text"}, None, <<>>)

news_researcher ==
    LlmAgent("news_researcher", {}, {"get_news_headlines"}, None, <<>>)

finance_department ==
    LlmAgent("finance_department", {}, {}, None, <<stock_analyst, financial_news_analyst>>)

customer_service_department ==
    LlmAgent("customer_service_department", {}, {}, None,
             <<recommendation_specialist, calculation_assistant>>)

research_department ==
    LlmAgent("research_department", {}, {}, None, <<content_analyst, news_researcher>>)

\* faulty variant: a specialist listed under the root as well
root_agent_hierarchical_with_specialist ==
    LlmAgent("enterprise_assistant", {}, {}, None,
             <<finance_department, customer_service_department, research_department,
               stock_analyst>>)

root_agent_hierarchical ==
    LlmAgent("enterprise_assistant", {}, {}, None,
             <<finance_department, customer_service_department, research_department>>)

\* --- the module that is loaded ---------------------------------------------
\* the values of ROOT_AGENT_MODULE and the root agent each module wraps in
\* its App
root_agent ==
    [ROOT_AGENT_MODULE \in {"app.agent_sequential", "app.agent_parallel",
                            "app.agent_hierarchical"} |->
        IF ROOT_AGENT_MODULE = "app.agent_sequential" THEN root_agent_sequential
        ELSE IF ROOT_AGENT_MODULE = "app.agent_parallel" THEN root_agent_parallel
        ELSE root_agent_hierarchical]

seq_range(s) == {s[i] : i \in DOMAIN s}

\* the agent and all agents under it
RECURSIVE agent_tree(_)
agent_tree(agent) ==
    {agent} \cup UNION {agent_tree(sub) : sub \in seq_range(agent.sub_agents)}

all_agents == UNION {agent_tree(root_agent[m]) : m \in DOMAIN root_agent}

agent_names == {agent.name : agent \in all_agents}

\* the agent of a name, among those of the module loaded
find_agent(root, name) == CHOOSE agent \in agent_tree(root) : agent.name = name

\* the keys of session.state the agents write to or name in an instruction
state_keys ==
    ({agent.output_key : agent \in all_agents} \ {None})
    \cup UNION {agent.instruction : agent \in all_agents}

\* a key of session.state nothing was written to
Missing == "<missing>"

\* the texts a model answers with
Outputs == {"text 1", "text 2"}

\* an agent that is not running
NotRunning ==
    [pc |-> "idle", caller |-> None, instruction |-> <<>>, output |-> Missing,
     transfers |-> 0, tool_calls |-> 0, tool |-> None, index |-> 0]

\* ------------------------------------------------------------------------
\* The arguments the tools are called with
\* ------------------------------------------------------------------------
MaxBillCents == 10
MaxTempMilli == 10
MaxRequested == 6
MaxNegative == 2
RandomStates == 2

\* a float argument, written as the decimal literal (-1)^neg * n / 10^k
Dec(neg, n, k) == [neg |-> neg, n |-> n, k |-> k]

\* the float the literal denotes
Float(d) == DDecimal(d.neg, d.n, d.k)

Symbols ==
    { <<"A", "A", "P", "L">>, <<"a", "a", "p", "l">>, <<"G", "O", "O", "G", "L">>, <<"g", "o", "o", "g", "l">>, <<"M", "s", "f", "t">>, <<"T", "S", "L", "A">>, <<"t", "s", "l", "a">>,
      <<>>, <<"I", "N", "V", "A", "L", "I", "D">>, <<"i", "n", "v", "a", "l", "i", "d">>, <<"a", "a", "p">>, <<"$", "5">> }

\* values of random.random(): 0, 2^-53, ..., 1 - 2^-53
RandomUnit ==
    { DInt(0), DRound(FALSE, <<1>>, -MantBits, FALSE),
      DDecimal(FALSE, 5, 4), DDecimal(FALSE, 25, 2), DDecimal(FALSE, 5, 1),
      DDecimal(FALSE, 7495, 4), DDecimal(FALSE, 9995, 4),
      DSub(DInt(1), DRound(FALSE, <<1>>, -MantBits, FALSE)) }

Topics ==
    { <<"s", "p", "o", "r", "t", "s">>, <<"S", "P", "O", "R", "T", "S", " ", "n", "e", "w", "s">>, <<"t", "e", "c", "h">>, <<"b", "u", "s", "i", "n", "e", "s", "s">>, <<"w", "e", "a", "t", "h", "e", "r">>, <<>>,
      <<"s">>, <<"o">>, <<"s", "p", "o", "r", "t", "s", " ", "b", "u", "s", "i", "n", "e", "s",
          "s">>, <<"b", "u", "s", "i", "n", "e", "s", "s", " ", "s", "p", "o", "r", "t",
          "s">> }

NumHeadlines == (0 - MaxNegative)..MaxRequested

\* the orders in which random.sample can visit a population of n
Orders(n) == {p \in [1..n -> 1..n] : \A i, j \in 1..n : p[i] = p[j] => i = j}

Bills ==
    { Dec(FALSE, c, 2) : c \in 0..MaxBillCents }
    \cup { Dec(TRUE, c, 2) : c \in 0..MaxNegative }
    \cup { Dec(FALSE, 5, 1), Dec(FALSE, 15, 1), Dec(FALSE, 50, 0), Dec(FALSE, 75, 0),
           Dec(FALSE, 100, 0), Dec(FALSE, 200, 0), Dec(TRUE, 50, 0),
           Dec(FALSE, 1, 3), Dec(TRUE, 1, 3), Dec(FALSE, 1999, 2) }

Percentages ==
    { Dec(FALSE, p, 0) : p \in {0, 1, 10, 15, 18, 20, 70, 100, 101, 150} }
    \cup { Dec(TRUE, 1, 0), Dec(TRUE, 1, 1), Dec(TRUE, 0, 0), Dec(FALSE, 5, 1),
           Dec(FALSE, 375, 1), Dec(FALSE, 999, 1), Dec(FALSE, 1001, 1),
           Dec(FALSE, 1000001, 4), Dec(FALSE, 999999, 4), Dec(TRUE, 1, 4) }

Temperatures ==
    { Dec(FALSE, t, 3) : t \in 0..MaxTempMilli }
    \cup { Dec(TRUE, 500, 0), Dec(TRUE, 45967, 2), Dec(TRUE, 27315, 2),
           Dec(TRUE, 40, 0), Dec(TRUE, 1, 3), Dec(TRUE, 0, 0), Dec(FALSE, 125, 3),
           Dec(FALSE, 1005, 3), Dec(FALSE, 2675, 3), Dec(FALSE, 32, 0),
           Dec(FALSE, 37, 0), Dec(FALSE, 986, 1), Dec(FALSE, 100, 0),
           Dec(FALSE, 212, 0), Dec(FALSE, 27315, 2), Dec(FALSE, 37315, 2),
           Dec(FALSE, 451, 0) }

\* the units of the signature, and two strings that are none of them
Units == { <<"C">>, <<"F">>, <<"K">>, <<"f">>, <<"X">>, <<"F", "a", "h", "r", "e", "n", "h", "e", "i", "t">> }

Texts ==
    { <<>>, <<" ">>, <<"H", "e", "l", "l", "o", " ", "w", "o", "r", "l", "d", ".">>, <<"H", "i", ".", ".", ".">>, <<" ", " ", "a", " ", " ", "b", " ">>, <<"a", "\t", "b", "\n", "c">>, <<"?", "!", ".">>,
      <<"F", "i", "r", "s", "t", " ", "s", "e", "n", "t", "e", "n", "c", "e",
        ".", " ", "S", "e", "c", "o", "n", "d", " ", "s", "e", "n", "t", "e",
        "n", "c", "e", "!", " ", "T", "h", "i", "r", "d", " ", "s", "e", "n",
        "t", "e", "n", "c", "e", "?">>, <<"\t">>, <<"a", "b", " ", "c", " ", "d", " ", "e">>,
      <<"N", "o", ".", " ", "1", "!">> }

Categories ==
    { <<"m", "o", "v", "i", "e">>, <<"M", "o", "v", "i", "e">>, <<"B", "O", "O", "K">>, <<"r", "e", "s", "t", "a", "u", "r", "a", "n", "t">>, <<"m", "o", "v", "i", "e", "s">>, <<"m", "o", "v">>, <<>>,
      <<"u", "n", "k", "n", "o", "w", "n">> }

Preferences == { <<>>, <<" ">>, <<"s", "c", "i", "-", "f", "i">>, <<"$", "5", " ", "m", "e", "n", "u">> }

\* ------------------------------------------------------------------------
\* The calls.  A tool is called when no call is in progress (fn = "none") and
\* runs to its end in one step; Return hands the outcome to the caller.
\* ------------------------------------------------------------------------
VARIABLES call, outcome, frames, random_state,
          app, session_state, activation, written, turn

vars == <<call, outcome, frames, random_state,
          app, session_state, activation, written, turn>>

\* what the calls of the tools leave alone: the agents and their session
orchestrated == <<app, session_state, activation, written, turn>>

\* what the calls made one at a time leave alone: the state of the threads
threaded == <<frames, random_state>>

Idle == call.fn = "none"

\* the threads the tools are called from
Threads == {1, 2}

\* a thread that is in no call
NoFrame == [pc |-> "idle"]

Init ==
    /\ call = [fn |-> "none"]
    /\ outcome = [status |-> "none", value |-> <<>>]
    /\ frames = [t \in Threads |-> NoFrame]
    /\ random_state = 0
    /\ app = None
    /\ session_state = [key \in state_keys |-> Missing]
    /\ activation = [name \in agent_names |-> NotRunning]
    /\ written = <<>>
    /\ turn = 0

GetStockPrice ==
    /\ Idle
    /\ \E symbol \in Symbols, r \in RandomUnit :
        /\ call' = [fn |-> "get_stock_price", symbol |-> symbol]
        /\ outcome' = get_stock_price(symbol, r)
    /\ UNCHANGED <<threaded, orchestrated>>

GetNewsHeadlines ==
    /\ Idle
    /\ \E topic \in Topics, num_headlines \in NumHeadlines :
        \E perm \in Orders(Len(matching_headlines(topic))) :
            /\ call' = [fn |-> "get_news_headlines", topic |-> topic,
                        num_headlines |-> num_headlines]
            /\ outcome' = get_news_headlines(topic, num_headlines, perm)
    /\ UNCHANGED <<threaded, orchestrated>>

CalculateTip ==
    /\ Idle
    /\ \E bill_amount \in Bills, tip_percentage \in Percentages :
        /\ call' = [fn |-> "calculate_tip", bill_amount |-> bill_amount,
                    tip_percentage |-> tip_percentage, defaulted |-> FALSE]
        /\ outcome' = calculate_tip(Float(bill_amount), Float(tip_percentage))
    /\ UNCHANGED <<threaded, orchestrated>>

\* faulty variant: another default
tip_percentage_default_18 == Dec(FALSE, 180, 1)

\* the default of the parameter tip_percentage
tip_percentage_default == Dec(FALSE, 150, 1)

\* calculate_tip called with the bill alone: the parameter takes its default
CalculateTipDefault ==
    /\ Idle
    /\ \E bill_amount \in Bills :
        /\ call' = [fn |-> "calculate_tip", bill_amount |-> bill_amount,
                    tip_percentage |-> tip_percentage_default, defaulted |-> TRUE]
        /\ outcome' = calculate_tip(Float(bill_amount), Float(tip_percentage_default))
    /\ UNCHANGED <<threaded, orchestrated>>

ConvertTemperature ==
    /\ Idle
    /\ \E value \in Temperatures, from_unit \in Units, to_unit \in Units :
        /\ call' = [fn |-> "convert_temperature", value |-> value,
                    from_unit |-> from_unit, to_unit |-> to_unit]
        /\ outcome' = convert_temperature(Float(value), from_unit, to_unit)
    /\ UNCHANGED <<threaded, orchestrated>>

AnalyzeText ==
    /\ Idle
    /\ \E text \in Texts :
        /\ call' = [fn |-> "analyze_text", text |-> text]
        /\ outcome' = analyze_text(text)
    /\ UNCHANGED <<threaded, orchestrated>>

MakeRecommendation ==
    /\ Idle
    /\ \E category \in Categories, preferences \in Preferences, pick \in 1..3 :
        /\ call' = [fn |-> "make_recommendation", category |-> category,
                    preferences |-> preferences, omitted |-> FALSE]
        /\ outcome' = make_recommendation(category, preferences, pick)
    /\ UNCHANGED <<threaded, orchestrated>>

\* the default of the parameter preferences
preferences_default == <<>>

\* make_recommendation called with the category alone
MakeRecommendationDefault ==
    /\ Idle
    /\ \E category \in Categories, pick \in 1..3 :
        /\ call' = [fn |-> "make_recommendation", category |-> category,
                    preferences |-> preferences_default, omitted |-> TRUE]
        /\ outcome' = make_recommendation(category, preferences_default, pick)
    /\ UNCHANGED <<threaded, orchestrated>>

Return ==
    /\ ~Idle
    /\ call' = [fn |-> "none"]
    /\ outcome' = [status |-> "none", value |-> <<>>]
    /\ UNCHANGED <<threaded, orchestrated>>

Next ==
    \/ GetStockPrice
    \/ GetNewsHeadlines
    \/ CalculateTip
    \/ CalculateTipDefault
    \/ ConvertTemperature
    \/ AnalyzeText
    \/ MakeRecommendation
    \/ MakeRecommendationDefault
    \/ Return

Spec == Init /\ [][Next]_vars


\* ------------------------------------------------------------------------
\* The calls made from several threads.  Each thread calls the tools one
\* after the other; the calls of different threads interleave.  A call has
\* its own frame: its arguments, the table its body builds (prices,
\* headlines_db, recommendations: each a local of the function, built anew
\* by every call) and what it has drawn from the random source.  The one
\* thing the calls share is the generator of the random module.  Its state
\* is kept as a position in a cycle of RandomStates positions, which every
\* draw advances; the value a draw returns is left open.
\* ------------------------------------------------------------------------
ThreadSymbols == {<<"A", "A", "P", "L">>, <<"i", "n", "v", "a", "l", "i", "d">>}

ThreadRandomUnit == {DInt(0), DSub(DInt(1), DRound(FALSE, <<1>>, -MantBits, FALSE))}

\* the table the body of the function builds; <<>> when it builds none
table_of(fn) ==
    IF fn = "get_stock_price" THEN prices
    ELSE IF fn = "get_news_headlines" THEN headlines_db
    ELSE IF fn = "make_recommendation" THEN recommendations
    ELSE <<>>

\* how many times the call draws from the random source
draws_needed(fn, args) ==
    IF fn = "get_stock_price"
    THEN (IF upper(args.symbol) \in DOMAIN prices THEN 1 ELSE 0)
    ELSE IF fn = "get_news_headlines"
    THEN (LET k == min(args.num_headlines, Len(matching_headlines(args.topic)))
          IN  IF k < 0 THEN 0 ELSE k)
    ELSE IF fn = "make_recommendation"
    THEN (IF lower(args.category) \in DOMAIN recommendations THEN 1 ELSE 0)
    ELSE 0

\* the length of the list the call draws from: matching_headlines for
\* random.sample, the category's list for random.choice
population_of(fn, args) ==
    IF fn = "get_news_headlines" THEN Len(matching_headlines(args.topic))
    ELSE IF fn = "make_recommendation" /\ lower(args.category) \in DOMAIN recommendations
    THEN Len(recommendations[lower(args.category)])
    ELSE 0

\* the frame of a call that has built its table and made its lookup
Frame(fn, args) ==
    [pc |-> "running", fn |-> fn, args |-> args, table |-> table_of(fn),
     needed |-> draws_needed(fn, args), population |-> population_of(fn, args),
     draws |-> <<>>, result |-> <<>>]

\* what the next draw of the call can return: a float of [0, 1) for
\* random.uniform, a position not yet taken for random.sample, a position
\* of the list for random.choice
draw_choices(frame) ==
    IF frame.fn = "get_stock_price" THEN ThreadRandomUnit
    ELSE IF frame.fn = "get_news_headlines"
    THEN 1..frame.population \ {frame.draws[i] : i \in 1..Len(frame.draws)}
    ELSE 1..frame.population

\* faulty variant: the headline drawn taken out of the list it is drawn from
after_draw_removing(frame, v) ==
    [frame EXCEPT !.draws = Append(@, v),
                  !.table = IF frame.fn = "get_news_headlines"
                            THEN [c \in 1..Len(@) |->
                                    [@[c] EXCEPT !.headlines =
                                        SelectSeq(@, LAMBDA h :
                                            h # matching_headlines(frame.args.topic)[v])]]
                            ELSE @]

\* the frame after a draw that returned v: the table is read, not written
after_draw(frame, v) == [frame EXCEPT !.draws = Append(@, v)]

\* what the call returns, given what it has drawn
result_of(frame) ==
    IF frame.fn = "get_stock_price"
    THEN get_stock_price(frame.args.symbol,
                         IF frame.draws = <<>> THEN DInt(0) ELSE frame.draws[1])
    ELSE IF frame.fn = "get_news_headlines"
    THEN get_news_headlines(frame.args.topic, frame.args.num_headlines, frame.draws)
    ELSE IF frame.fn = "calculate_tip"
    THEN calculate_tip(Float(frame.args.bill_amount), Float(frame.args.tip_percentage))
    ELSE IF frame.fn = "convert_temperature"
    THEN convert_temperature(Float(frame.args.value), frame.args.from_unit,
                             frame.args.to_unit)
    ELSE IF frame.fn = "analyze_text" THEN analyze_text(frame.args.text)
    ELSE make_recommendation(frame.args.category, frame.args.preferences,
                             IF frame.draws = <<>> THEN 1 ELSE frame.draws[1])

Enter(t, fn, args) == frames' = [frames EXCEPT ![t] = Frame(fn, args)]

\* thread t calls a tool: the arguments are bound and the table is built
Invoke(t) ==
    /\ frames[t].pc = "idle"
    /\ \/ \E symbol \in ThreadSymbols : Enter(t, "get_stock_price", [symbol |-> symbol])
       \/ \E num_headlines \in {2, -1} :
            Enter(t, "get_news_headlines",
                  [topic |-> <<"s", "p", "o", "r", "t", "s">>, num_headlines |-> num_headlines])
       \/ Enter(t, "calculate_tip",
                [bill_amount |-> Dec(FALSE, 75, 0), tip_percentage |-> Dec(FALSE, 18, 0)])
       \/ Enter(t, "convert_temperature",
                [value |-> Dec(FALSE, 100, 0), from_unit |-> <<"C">>, to_unit |-> <<"F">>])
       \/ Enter(t, "analyze_text", [text |-> <<"H", "i", ".", ".", ".">>])
       \/ \E category \in {<<"m", "o", "v", "i", "e">>, <<"u", "n", "k", "n", "o", "w", "n">>} :
            Enter(t, "make_recommendation",
                  [category |-> category, preferences |-> <<>>])
    /\ UNCHANGED <<call, outcome, random_state, orchestrated>>

\* thread t draws from the random source, which moves on
Draw(t) ==
    /\ frames[t].pc = "running"
    /\ Len(frames[t].draws) < frames[t].needed
    /\ \E v \in draw_choices(frames[t]) :
        frames' = [frames EXCEPT ![t] = after_draw(frames[t], v)]
    /\ random_state' = (random_state + 1) % RandomStates
    /\ UNCHANGED <<call, outcome, orchestrated>>

\* the call of thread t comes to its return (or to the exception it raises)
Finish(t) ==
    /\ frames[t].pc = "running"
    /\ Len(frames[t].draws) = frames[t].needed
    /\ frames' = [frames EXCEPT ![t] = [@ EXCEPT !.pc = "returned",
                                                 !.result = result_of(frames[t])]]
    /\ UNCHANGED <<call, outcome, random_state, orchestrated>>

\* the caller in thread t takes the result; the frame is gone
Collect(t) ==
    /\ frames[t].pc = "returned"
    /\ frames' = [frames EXCEPT ![t] = NoFrame]
    /\ UNCHANGED <<call, outcome, random_state, orchestrated>>

ThreadsNext == \E t \in Threads : Invoke(t) \/ Draw(t) \/ Finish(t) \/ Collect(t)

ThreadsSpec == Init /\ [][ThreadsNext]_vars

\* ------------------------------------------------------------------------
\* The agents at work.  ROOT_AGENT_MODULE names the module whose app is
\* loaded.  A message of the user starts the root agent.  An Agent is run by
\* its model: when it starts, the keys its instruction names are filled in
\* from session.state; it may call its tools, hand over to one of its
\* sub_agents and go on when that one has ended, and it ends with a text,
\* which is saved in session.state under its output_key.  A SequentialAgent
\* runs its sub_agents one after the other in the order of the list; a
\* ParallelAgent runs them at once and ends when all have ended.
\* ------------------------------------------------------------------------
MaxTurns == 2

MaxTransfers == 2

MaxToolCalls == 1

tools_state == <<call, outcome, frames, random_state>>

\* the agents of the module loaded
loaded == IF app = None THEN {} ELSE agent_tree(root_agent[app])

\* session.state[key], Missing when nothing is there
state_value(key) == IF key \in DOMAIN session_state THEN session_state[key] ELSE Missing

\* the agent starts for the caller: the keys of its instruction are filled in
Started(agent, caller) ==
    [NotRunning EXCEPT !.pc = "running", !.caller = caller,
                       !.instruction = IF agent.instruction = {} THEN <<>>
                                       ELSE [key \in agent.instruction |-> state_value(key)]]

\* the app of the module named by ROOT_AGENT_MODULE is loaded
LoadAgentModule ==
    /\ app = None
    /\ \E ROOT_AGENT_MODULE \in DOMAIN root_agent : app' = ROOT_AGENT_MODULE
    /\ UNCHANGED <<session_state, activation, written, turn, tools_state>>

\* the user sends a message: the root agent starts
UserMessage ==
    /\ app # None
    /\ turn < MaxTurns
    /\ activation[root_agent[app].name].pc = "idle"
    /\ turn' = turn + 1
    /\ written' = <<>>
    /\ activation' = [activation EXCEPT ![root_agent[app].name] =
                                            Started(root_agent[app], "user")]
    /\ UNCHANGED <<app, session_state, tools_state>>

\* the model of the agent calls one of the agent's tools
CallTool(agent) ==
    /\ agent.kind = "Agent"
    /\ activation[agent.name].pc = "running"
    /\ activation[agent.name].tool_calls < MaxToolCalls
    /\ \E tool \in agent.tools :
        activation' = [activation EXCEPT ![agent.name].tool_calls = @ + 1,
                                         ![agent.name].tool = tool]
    /\ UNCHANGED <<app, session_state, written, turn, tools_state>>

\* the model of the agent hands over to one of the agent's sub_agents
TransferToAgent(agent) ==
    /\ agent.kind = "Agent"
    /\ activation[agent.name].pc = "running"
    /\ activation[agent.name].transfers < MaxTransfers
    /\ \E i \in DOMAIN agent.sub_agents :
        /\ activation[agent.sub_agents[i].name].pc = "idle"
        /\ activation' = [activation EXCEPT
                            ![agent.name].pc = "waiting",
                            ![agent.name].transfers = @ + 1,
                            ![agent.sub_agents[i].name] =
                                Started(agent.sub_agents[i], agent.name)]
    /\ UNCHANGED <<app, session_state, written, turn, tools_state>>

\* the sub_agent the agent handed over to has ended: the agent goes on
ResumeAfter(agent) ==
    /\ agent.kind = "Agent"
    /\ activation[agent.name].pc = "waiting"
    /\ \E i \in DOMAIN agent.sub_agents :
        /\ activation[agent.sub_agents[i].name].pc = "done"
        /\ activation[agent.sub_agents[i].name].caller = agent.name
        /\ activation' = [activation EXCEPT ![agent.name].pc = "running",
                                            ![agent.sub_agents[i].name] = NotRunning]
    /\ UNCHANGED <<app, session_state, written, turn, tools_state>>

\* the agent ends with its text, saved under its output_key
FinalResponse(agent) ==
    /\ agent.kind = "Agent"
    /\ activation[agent.name].pc = "running"
    /\ \E output \in Outputs :
        /\ activation' = [activation EXCEPT ![agent.name].pc = "done",
                                            ![agent.name].output = output]
        /\ IF agent.output_key # None
           THEN /\ session_state' = [session_state EXCEPT ![agent.output_key] = output]
                /\ written' = Append(written, agent.output_key)
           ELSE UNCHANGED <<session_state, written>>
    /\ UNCHANGED <<app, turn, tools_state>>

\* a SequentialAgent starts its next sub_agent when the one before has ended
RunNextSubAgent(agent) ==
    /\ agent.kind = "SequentialAgent"
    /\ activation[agent.name].pc = "running"
    /\ activation[agent.name].index < Len(agent.sub_agents)
    /\ IF activation[agent.name].index = 0 THEN TRUE
       ELSE activation[agent.sub_agents[activation[agent.name].index].name].pc = "done"
    /\ activation' = [activation EXCEPT
                        ![agent.name].index = @ + 1,
                        ![agent.sub_agents[activation[agent.name].index + 1].name] =
                            Started(agent.sub_agents[activation[agent.name].index + 1],
                                    agent.name)]
    /\ UNCHANGED <<app, session_state, written, turn, tools_state>>

\* a SequentialAgent ends when its last sub_agent has ended
EndOfSequence(agent) ==
    /\ agent.kind = "SequentialAgent"
    /\ activation[agent.name].pc = "running"
    /\ activation[agent.name].index = Len(agent.sub_agents)
    /\ activation[agent.sub_agents[Len(agent.sub_agents)].name].pc = "done"
    /\ activation' = [name \in agent_names |->
                        IF name = agent.name THEN [activation[name] EXCEPT !.pc = "done"]
                        ELSE IF \E i \in DOMAIN agent.sub_agents : agent.sub_agents[i].name = name
                        THEN NotRunning
                        ELSE activation[name]]
    /\ UNCHANGED <<app, session_state, written, turn, tools_state>>

\* a ParallelAgent starts all its sub_agents
RunSubAgentsTogether(agent) ==
    /\ agent.kind = "ParallelAgent"
    /\ activation[agent.name].pc = "running"
    /\ activation[agent.name].index = 0
    /\ activation' = [name \in agent_names |->
                        IF name = agent.name THEN [activation[name] EXCEPT !.index = 1]
                        ELSE IF \E i \in DOMAIN agent.sub_agents : agent.sub_agents[i].name = name
                        THEN Started(find_agent(agent, name), agent.name)
                        ELSE activation[name]]
    /\ UNCHANGED <<app, session_state, written, turn, tools_state>>

\* a ParallelAgent ends when all its sub_agents have ended
JoinSubAgents(agent) ==
    /\ agent.kind = "ParallelAgent"
    /\ activation[agent.name].pc = "running"
    /\ activation[agent.name].index = 1
    /\ \A i \in DOMAIN agent.sub_agents : activation[agent.sub_agents[i].name].pc = "done"
    /\ activation' = [name \in agent_names |->
                        IF name = agent.name THEN [activation[name] EXCEPT !.pc = "done"]
                        ELSE IF \E i \in DOMAIN agent.sub_agents : agent.sub_agents[i].name = name
                        THEN NotRunning
                        ELSE activation[name]]
    /\ UNCHANGED <<app, session_state, written, turn, tools_state>>

\* the root agent has ended: its text goes to the user
Reply ==
    /\ app # None
    /\ activation[root_agent[app].name].pc = "done"
    /\ activation' = [activation EXCEPT ![root_agent[app].name] = NotRunning]
    /\ UNCHANGED <<app, session_state, written, turn, tools_state>>

AgentsNext ==
    \/ LoadAgentModule
    \/ UserMessage
    \/ Reply
    \/ \E agent \in loaded :
        \/ CallTool(agent)
        \/ TransferToAgent(agent)
        \/ ResumeAfter(agent)
        \/ FinalResponse(agent)
        \/ RunNextSubAgent(agent)
        \/ EndOfSequence(agent)
        \/ RunSubAgentsTogether(agent)
        \/ JoinSubAgents(agent)

AgentsSpec == Init /\ [][AgentsNext]_vars

\* ------------------------------------------------------------------------
\* Reading the returned strings
\* ------------------------------------------------------------------------
Digits == {"0", "1", "2", "3", "4", "5", "6", "7", "8", "9"}

DigitVal(c) == CHOOSE d \in 0..9 : DigitChar(d) = c

StartsWith(s, p) == Len(p) <= Len(s) /\ SubSeq(s, 1, Len(p)) = p

Drop(s, n) == SubSeq(s, n + 1, Len(s))

RECURSIVE SplitOn(_, _, _, _, _)
SplitOn(s, c, i, cur, acc) ==
    IF i > Len(s) THEN Append(acc, cur)
    ELSE IF s[i] = c THEN SplitOn(s, c, i + 1, <<>>, Append(acc, cur))
    ELSE SplitOn(s, c, i + 1, Append(cur, s[i]), acc)

\* the lines of a string
Lines(s) == SplitOn(s, "\n", 1, <<>>, <<>>)

\* s is an amount with two decimals: -?[0-9]+\.[0-9][0-9]
IsAmount(s) ==
    LET t == IF s # <<>> /\ s[1] = "-" THEN Tail(s) ELSE s
    IN  /\ Len(t) >= 4
        /\ t[Len(t) - 2] = "."
        /\ \A i \in 1..Len(t) : i # Len(t) - 2 => t[i] \in Digits

RECURSIVE DigitsVal(_, _)
DigitsVal(s, acc) ==
    IF s = <<>> THEN acc
    ELSE IF Head(s) \in Digits THEN DigitsVal(Tail(s), 10 * acc + DigitVal(Head(s)))
    ELSE DigitsVal(Tail(s), acc)

\* the amount s, a rational number of hundredths
Amount(s) == QDec(s # <<>> /\ s[1] = "-", DigitsVal(s, 0), 2)

\* a is q rounded to the nearest hundredth (either one when q is half-way)
Nearest(a, q) ==
    IsAmount(a) /\ QLe(QAbs(QSub(Amount(a), q)), QDec(FALSE, 5, 3))

\* the string after the last "$" of s
AfterDollar(s) ==
    Drop(s, CHOOSE i \in 1..Len(s) :
                s[i] = "$" /\ \A j \in (i + 1)..Len(s) : s[j] # "$")

\* s shows a `$` amount: a "$" followed by a digit
HasDollarAmount(s) ==
    \E i \in 1..(Len(s) - 1) : s[i] = "$" /\ s[i + 1] \in Digits

Returns == outcome.status = "returned"

Calling(f) == call.fn = f

\* ------------------------------------------------------------------------
\* Properties
\* ------------------------------------------------------------------------
Zero == QDec(FALSE, 0, 0)

Hundred == QDec(FALSE, 100, 0)

IsError(s) == In(<<"e", "r", "r", "o", "r">>, lower(s))

\* C1: every call of a tool ends by returning a string; none raises.
AlwaysReturnsString == ~Idle => Returns

\* --- calculate_tip ------------------------------------------------------
Bill == QOf(call.bill_amount)

Pct == QOf(call.tip_percentage)

TipLines == Lines(outcome.value)

\* the amount shown on line i of the result, the text after its "$"
ShownAmount(i) == IF In(<<"$">>, TipLines[i]) THEN AfterDollar(TipLines[i]) ELSE <<>>

ExactTip == QDivInt(QMul(Bill, Pct), 100)

\* C2: for a bill >= 0 and a percentage in [0, 100] the result is no error
\* and has three lines, Bill Amount, Tip and Total, each showing a $ amount
\* of two decimals: the bill, the tip bill * percentage / 100 and the total
\* bill + tip, each rounded to the nearest cent.
TipIsBillTimesPercentage ==
    (Calling("calculate_tip") /\ QLe(Zero, Bill) /\ QLe(Zero, Pct) /\ QLe(Pct, Hundred))
    => /\ Returns
       /\ ~IsError(outcome.value)
       /\ Len(TipLines) = 3
       /\ StartsWith(TipLines[1], <<"B", "i", "l", "l", " ", "A", "m", "o", "u", "n", "t", ":", " ", "$">>)
       /\ Nearest(ShownAmount(1), Bill)
       /\ StartsWith(TipLines[2], <<"T", "i", "p", " ", "(">>)
       /\ Nearest(ShownAmount(2), ExactTip)
       /\ StartsWith(TipLines[3], <<"T", "o", "t", "a", "l", ":", " ", "$">>)
       /\ Nearest(ShownAmount(3), QAdd(Bill, ExactTip))

\* 75 at 18 percent: a tip of $13.50 and a total of $88.50
TipOf75At18 ==
    /\ Calling("calculate_tip")
    /\ call.bill_amount = Dec(FALSE, 75, 0)
    /\ call.tip_percentage = Dec(FALSE, 18, 0)
    /\ Returns
    /\ ShownAmount(2) = <<"1", "3", ".", "5", "0">>
    /\ ShownAmount(3) = <<"8", "8", ".", "5", "0">>

\* C3: for a bill < 0, whatever the percentage, the result is an error
\* string that contains "error" and "negative" and shows no amount: the
\* bill is validated before the percentage.
NegativeBillRejected ==
    (Calling("calculate_tip") /\ QLt(Bill, Zero))
    => /\ Returns
       /\ IsError(outcome.value)
       /\ In(<<"n", "e", "g", "a", "t", "i", "v", "e">>, lower(outcome.value))
       /\ ~In(<<"$">>, outcome.value)
       /\ \A i \in 1..Len(outcome.value) : outcome.value[i] \notin Digits

\* a negative bill together with a percentage above 100
NegativeBillAndBadPercentage ==
    /\ Calling("calculate_tip")
    /\ QLt(Bill, Zero)
    /\ QLt(Hundred, Pct)
    /\ Returns
    /\ In(<<"n", "e", "g", "a", "t", "i", "v", "e">>, lower(outcome.value))

\* C4: for a bill >= 0 the result is an error string exactly when the
\* percentage is below 0 or above 100; 0 and 100 themselves give the normal
\* three-line result, and the tip at 0 percent is 0.00.
ErrorIffPercentageOutOfRange ==
    (Calling("calculate_tip") /\ QLe(Zero, Bill))
    => /\ Returns
       /\ IsError(outcome.value) <=> (QLt(Pct, Zero) \/ QLt(Hundred, Pct))
       /\ (QEq(Pct, Zero) \/ QEq(Pct, Hundred)) => Len(TipLines) = 3
       /\ QEq(Pct, Zero) => (IsAmount(ShownAmount(2)) /\ QEq(Amount(ShownAmount(2)), Zero))

\* 100 percent of 75: accepted, the tip is the bill
HundredPercentAccepted ==
    /\ Calling("calculate_tip")
    /\ call.bill_amount = Dec(FALSE, 75, 0)
    /\ call.tip_percentage = Dec(FALSE, 100, 0)
    /\ Returns
    /\ ShownAmount(2) = <<"7", "5", ".", "0", "0">>
    /\ ShownAmount(3) = <<"1", "5", "0", ".", "0", "0">>

\* --- get_stock_price ----------------------------------------------------
\* the base prices as the specification lists them
ListedPrice ==
    (<<"A", "A", "P", "L">> :> QDec(FALSE, 17850, 2))
    @@ (<<"G", "O", "O", "G", "L">> :> QDec(FALSE, 14230, 2))
    @@ (<<"M", "S", "F", "T">> :> QDec(FALSE, 38020, 2))
    @@ (<<"T", "S", "L", "A">> :> QDec(FALSE, 24560, 2))

Supported == DOMAIN ListedPrice

Five == QDec(FALSE, 5, 0)

\* the price a price message shows
ShownPrice == IF In(<<"$">>, outcome.value) THEN AfterDollar(outcome.value) ELSE <<>>

\* C5: for a supported symbol in any letter case and any jitter, the price
\* in the message is within 5.00 of the symbol's base price.
PriceWithinFiveOfBase ==
    (Calling("get_stock_price") /\ upper(call.symbol) \in Supported)
    => /\ Returns
       /\ IsAmount(ShownPrice)
       /\ QLe(QSub(ListedPrice[upper(call.symbol)], Five), Amount(ShownPrice))
       /\ QLe(Amount(ShownPrice), QAdd(ListedPrice[upper(call.symbol)], Five))

\* "googl" at the top of the range: 142.30 + 5.00
LowercaseSymbolAtUpperEnd ==
    /\ Calling("get_stock_price")
    /\ call.symbol = <<"g", "o", "o", "g", "l">>
    /\ Returns
    /\ ShownPrice = <<"1", "4", "7", ".", "3", "0">>

Found == <<"T", "h", "e", " ", "c", "u", "r", "r", "e", "n", "t", " ", "p", "r",
          "i", "c", "e", " ", "o", "f", " ">>

NotFound == <<"S", "o", "r", "r", "y", ",", " ", "I", " ", "d", "o", "n", "'", "t",
          " ", "h", "a", "v", "e", " ", "p", "r", "i", "c", "e", " ", "i", "n",
          "f", "o", "r", "m", "a", "t", "i", "o", "n", " ", "f", "o", "r", " ">>

\* the message names the symbol as s: s stands where the message has its symbol
NamesAs(s) ==
    \/ StartsWith(outcome.value, Found \o s \o <<" ", "i", "s", " ", "$">>)
    \/ StartsWith(outcome.value, NotFound \o s \o <<".", " ", "T", "r", "y", " ">>)

\* C6 as stated: whatever the input, the lookup is by the uppercased symbol
\* and the message names the uppercased symbol.
NamesUppercasedSymbol ==
    Calling("get_stock_price")
    => /\ Returns
       /\ StartsWith(outcome.value, Found) <=> upper(call.symbol) \in Supported
       /\ NamesAs(upper(call.symbol))

\* C6: the lookup is by the uppercased symbol, so that a symbol has a price
\* exactly when its uppercased form is in the table; the price message names
\* the uppercased symbol, the no-data message names the symbol as given.
NamesUppercasedSymbolWhenFound ==
    Calling("get_stock_price")
    => /\ Returns
       /\ StartsWith(outcome.value, Found) <=> upper(call.symbol) \in Supported
       /\ upper(call.symbol) \in Supported
          => /\ StartsWith(outcome.value, Found \o upper(call.symbol) \o <<" ", "i", "s", " ", "$">>)
             /\ IsAmount(ShownPrice)
       /\ upper(call.symbol) \notin Supported
          => StartsWith(outcome.value, NotFound \o call.symbol \o <<".", " ", "T", "r", "y", " ">>)

\* "invalid" is not in the table and is named in lower case, as given
LowercaseSymbolEchoed ==
    /\ Calling("get_stock_price")
    /\ call.symbol = <<"i", "n", "v", "a", "l", "i", "d">>
    /\ Returns
    /\ NamesAs(<<"i", "n", "v", "a", "l", "i", "d">>)
    /\ ~NamesAs(<<"I", "N", "V", "A", "L", "I", "D">>)

ApologyNamingSymbol ==
    /\ Returns
    /\ In(<<"s", "o", "r", "r", "y">>, lower(outcome.value)) \/ In(<<"d", "o", "n", "'", "t", " ", "h", "a", "v", "e">>, lower(outcome.value))
    /\ NamesAs(call.symbol)
    /\ \A s \in Supported : In(s, Drop(outcome.value, Len(NotFound \o call.symbol)))

\* C7 as stated: for a symbol whose uppercased form is not in the table the
\* message apologises, names the symbol, lists the four supported symbols
\* and has no "$" amount.
UnsupportedSymbolNoDollarAmount ==
    (Calling("get_stock_price") /\ upper(call.symbol) \notin Supported)
    => /\ ApologyNamingSymbol
       /\ ~HasDollarAmount(outcome.value)

\* C7: for a symbol whose uppercased form is not in the table the message
\* apologises, names the symbol, lists the four supported symbols and has
\* no "$" but those of the symbol it names.
UnsupportedSymbolNoPrice ==
    (Calling("get_stock_price") /\ upper(call.symbol) \notin Supported)
    => /\ ApologyNamingSymbol
       /\ count(outcome.value, "$") = count(call.symbol, "$")

\* the symbol "$5" is named in the no-data message, "$" and digit included
DollarSymbolEchoed ==
    /\ Calling("get_stock_price")
    /\ call.symbol = <<"$", "5">>
    /\ Returns
    /\ NamesAs(<<"$", "5">>)
    /\ HasDollarAmount(outcome.value)

\* --- convert_temperature ------------------------------------------------
Scales == {<<"C">>, <<"F">>, <<"K">>}

BetweenScales == Calling("convert_temperature") /\ call.from_unit \in Scales /\ call.to_unit \in Scales

Temperature == QOf(call.value)

\* the result shown: the text between "= " and the degree sign of the target
ResultText ==
    IF In(<<"=">>, outcome.value)
    THEN SubSeq(outcome.value,
                (CHOOSE i \in 1..Len(outcome.value) : outcome.value[i] = "=") + 2,
                Len(outcome.value) - 2)
    ELSE <<>>

\* the formulas as the specification gives them
StatedCelsius(v, unit) ==
    IF unit = <<"F">> THEN QDivInt(QMulInt(QSub(v, QDec(FALSE, 32, 0)), 5), 9)
    ELSE IF unit = <<"K">> THEN QSub(v, QDec(FALSE, 27315, 2))
    ELSE v

StatedTarget(c, unit) ==
    IF unit = <<"F">> THEN QAdd(QDivInt(QMulInt(c, 9), 5), QDec(FALSE, 32, 0))
    ELSE IF unit = <<"K">> THEN QAdd(c, QDec(FALSE, 27315, 2))
    ELSE c

Converting(n, from_unit, to_unit) ==
    /\ call.value = Dec(FALSE, n, 0)
    /\ call.from_unit = from_unit
    /\ call.to_unit = to_unit

\* C8: between any two of C, F and K, and for any value, those below
\* absolute zero too, the result shown is the value taken to Celsius
\* ((v-32)*5/9, v-273.15, v) and from Celsius to the target (c*9/5+32,
\* c+273.15, c), to the nearest hundredth: 0 C is 32.00 F, 32 F is 0.00 C,
\* 0 C is 273.15 K and 100 C is 212.00 F.
ConvertsThroughCelsius ==
    BetweenScales
    => /\ Returns
       /\ Nearest(ResultText,
                  StatedTarget(StatedCelsius(Temperature, call.from_unit), call.to_unit))
       /\ SubSeq(outcome.value, Len(outcome.value) - 1, Len(outcome.value))
              = <<"°">> \o call.to_unit
       /\ Converting(0, <<"C">>, <<"F">>) => ResultText = <<"3", "2", ".", "0", "0">>
       /\ Converting(32, <<"F">>, <<"C">>) => ResultText = <<"0", ".", "0", "0">>
       /\ Converting(0, <<"C">>, <<"K">>) => ResultText = <<"2", "7", "3", ".", "1", "5">>
       /\ Converting(100, <<"C">>, <<"F">>) => ResultText = <<"2", "1", "2", ".", "0", "0">>

\* -500 K, below absolute zero, is converted to -1359.67 F
BelowAbsoluteZeroConverted ==
    /\ Calling("convert_temperature")
    /\ call.value = Dec(TRUE, 500, 0)
    /\ call.from_unit = <<"K">>
    /\ call.to_unit = <<"F">>
    /\ Returns
    /\ ResultText = <<"-", "1", "3", "5", "9", ".", "6", "7">>

\* C9: converting a value to the unit it is in shows the value itself,
\* formatted to two decimals (0.00 and -0.00 taken as the same amount).
SameUnitIsIdentity ==
    (BetweenScales /\ call.from_unit = call.to_unit)
    => /\ Returns
       /\ IsAmount(ResultText)
       /\ QEq(Amount(ResultText), Amount(FormatFixed(Float(call.value), 2)))

\* C10: in exact arithmetic, converting a value from U to V and the result
\* from V back to U gives the value again, for any U and V of C, F and K.
RoundTripIsExactInverse ==
    BetweenScales
    => /\ Returns
       /\ QEq(exact_convert(exact_convert(Temperature, call.from_unit, call.to_unit),
                            call.to_unit, call.from_unit),
              Temperature)

\* 98.6 F is exactly 310.15 K, and 310.15 K is 98.6 F again
BodyTemperatureRoundTrip ==
    /\ Calling("convert_temperature")
    /\ call.value = Dec(FALSE, 986, 1)
    /\ call.from_unit = <<"F">>
    /\ call.to_unit = <<"K">>
    /\ Returns
    /\ QEq(exact_convert(Temperature, <<"F">>, <<"K">>), QDec(FALSE, 31015, 2))
    /\ QEq(exact_convert(QDec(FALSE, 31015, 2), <<"K">>, <<"F">>), Temperature)

\* --- get_news_headlines -------------------------------------------------
\* the pieces of s between the occurrences of the character c
Cut(s, c) ==
    LET at == {i \in 1..Len(s) : s[i] = c}
        n == Cardinality(at)
        pos(j) == IF j = 0 THEN 0
                  ELSE IF j = n + 1 THEN Len(s) + 1
                  ELSE CHOOSE i \in at : Cardinality({x \in at : x < i}) = j - 1
    IN  [j \in 1..(n + 1) |-> SubSeq(s, pos(j - 1) + 1, pos(j) - 1)]

NewsLines == Cut(outcome.value, "\n")

\* the result is a header line, numbered lines and the end of the last line
NewsShape == Returns /\ Len(NewsLines) >= 2 /\ NewsLines[Len(NewsLines)] = <<>>

\* the number of headline lines under the header
ReturnedCount == Len(NewsLines) - 2

AllDigits(s) == s # <<>> /\ \A i \in 1..Len(s) : s[i] \in Digits

\* the count the header reports: "Top <count> headlines for '<topic>':"
HeaderReports(k) ==
    LET words == Cut(NewsLines[1], " ")
    IN  /\ Len(words) >= 2
        /\ AllDigits(words[2])
        /\ DigitsVal(words[2], 0) = k
        /\ StartsWith(NewsLines[1], <<"T", "o", "p", " ">> \o words[2] \o <<" ", "h", "e", "a", "d", "l", "i", "n", "e", "s", " ", "f", "o", "r",
          " ", "'">>)

\* headline line i is "<i>. <headline>"
NumberText(i) == Cut(NewsLines[i + 1], ".")[1]

IsNumbered(i) ==
    /\ AllDigits(NumberText(i))
    /\ DigitsVal(NumberText(i), 0) = i
    /\ StartsWith(Drop(NewsLines[i + 1], Len(NumberText(i))), <<".", " ">>)

ReturnedHeadline(i) == Drop(NewsLines[i + 1], Len(NumberText(i)) + 2)

\* the headlines available for the topic of the call
Available == Len(matching_headlines(call.topic))

Smaller(a, b) == IF a <= b THEN a ELSE b

CountIsClampedRequest ==
    /\ NewsShape
    /\ ReturnedCount = Smaller(call.num_headlines, Available)
    /\ ReturnedCount <= call.num_headlines
    /\ ReturnedCount <= Available
    /\ HeaderReports(ReturnedCount)
    /\ \A i \in 1..ReturnedCount : IsNumbered(i)

NewsCategories == {<<"t", "e", "c", "h", "n", "o", "l", "o", "g", "y">>, <<"s", "p", "o", "r", "t", "s">>, <<"b", "u", "s", "i", "n", "e", "s", "s">>}

\* the topic matches the category: one is a substring of the other
TopicMatches(category) ==
    \/ In(lower(call.topic), category)
    \/ In(category, lower(call.topic))

\* every headline returned is one of the category's
DrawnFrom(category) ==
    \A i \in 1..ReturnedCount :
        \E j \in 1..Len(headlines_of(category)) :
            ReturnedHeadline(i) = headlines_of(category)[j]

\* C12: the headlines returned are those of a category the topic matches
\* (the lowercased topic a substring of the category or the category a
\* substring of the lowercased topic), or of "technology" when the topic
\* matches none of technology, sports and business, and then too a string
\* is returned.
DrawsFromMatchingCategory ==
    (Calling("get_news_headlines") /\ call.num_headlines >= 0)
    => /\ NewsShape
       /\ \E category \in NewsCategories :
            /\ DrawnFrom(category)
            /\ \/ TopicMatches(category)
               \/ /\ category = <<"t", "e", "c", "h", "n", "o", "l", "o", "g", "y">>
                  /\ \A other \in NewsCategories : ~TopicMatches(other)

\* "weather" matches no category: its headlines are technology's
FallsBackToTechnology ==
    /\ Calling("get_news_headlines")
    /\ call.topic = <<"w", "e", "a", "t", "h", "e", "r">>
    /\ call.num_headlines = 2
    /\ NewsShape
    /\ ReturnedCount = 2
    /\ DrawnFrom(<<"t", "e", "c", "h", "n", "o", "l", "o", "g", "y">>)
    /\ \A other \in NewsCategories : ~TopicMatches(other)

\* C20: the headlines one call returns are pairwise distinct and all of one
\* category, the matched one or the fallback, in any order.
SampleWithoutReplacement ==
    (Calling("get_news_headlines") /\ Returns)
    => /\ NewsShape
       /\ \A i, j \in 1..ReturnedCount :
            ReturnedHeadline(i) = ReturnedHeadline(j) => i = j
       /\ \E category \in NewsCategories :
            /\ DrawnFrom(category)
            /\ \A i \in 1..ReturnedCount :
                 \A other \in NewsCategories \ {category} :
                    \A j \in 1..Len(headlines_of(other)) :
                        ReturnedHeadline(i) # headlines_of(other)[j]

\* all four sports headlines, the last of the table first
ReturnedInAnotherOrder ==
    /\ Calling("get_news_headlines")
    /\ call.topic = <<"s", "p", "o", "r", "t", "s">>
    /\ NewsShape
    /\ ReturnedCount = 4
    /\ ReturnedHeadline(1) = headlines_of(<<"s", "p", "o", "r", "t", "s">>)[4]
    /\ ReturnedHeadline(4) = headlines_of(<<"s", "p", "o", "r", "t", "s">>)[1]

\* --- analyze_text -------------------------------------------------------
AnalysisLines == Cut(outcome.value, "\n")

\* the text line i of the analysis shows between its label and its unit
Reported(i, label, unit) ==
    LET line == AnalysisLines[i]
    IN  IF /\ Len(AnalysisLines) = 6
           /\ StartsWith(line, label)
           /\ Len(line) >= Len(label) + Len(unit)
           /\ SubSeq(line, Len(line) - Len(unit) + 1, Len(line)) = unit
        THEN SubSeq(line, Len(label) + 1, Len(line) - Len(unit))
        ELSE <<>>

ReportedWords == Reported(4, <<"-", " ", "W", "o", "r", "d", "s", ":", " ">>, <<>>)

ReportedSentences == Reported(5, <<"-", " ", "S", "e", "n", "t", "e", "n", "c", "e", "s", ":", " ">>, <<>>)

ReportedAverage == Reported(6, <<"-", " ", "A", "v", "e", "r", "a", "g", "e", " ", "w", "o", "r", "d",
          " ", "l", "e", "n", "g", "t", "h", ":", " ">>, <<" ", "c", "h", "a", "r", "a", "c", "t", "e", "r", "s">>)

Blank == {" ", "\t", "\n", "\r", "\f"}

\* the maximal runs of non-whitespace characters, told by where they start
WordStarts(text) ==
    {i \in 1..Len(text) : text[i] \notin Blank /\ (i = 1 \/ text[i - 1] \in Blank)}

ThreeSentences == <<"F", "i", "r", "s", "t", " ", "s", "e", "n", "t", "e", "n", "c", "e",
          ".", " ", "S", "e", "c", "o", "n", "d", " ", "s", "e", "n", "t", "e",
          "n", "c", "e", "!", " ", "T", "h", "i", "r", "d", " ", "s", "e", "n",
          "t", "e", "n", "c", "e", "?">>

\* C13: the word count reported is the number of maximal runs of
\* non-whitespace characters: 0 for the empty text and for whitespace only,
\* 6 for "First sentence. Second sentence! Third sentence?".
WordCountIsNonBlankRuns ==
    Calling("analyze_text")
    => /\ Returns
       /\ AllDigits(ReportedWords)
       /\ DigitsVal(ReportedWords, 0) = Cardinality(WordStarts(call.text))
       /\ (\A i \in 1..Len(call.text) : call.text[i] \in Blank) => ReportedWords = <<"0">>
       /\ call.text = ThreeSentences => ReportedWords = <<"6">>

\* words separated by a tab and a newline: three words
TabAndNewlineSeparate ==
    /\ Calling("analyze_text")
    /\ call.text = <<"a", "\t", "b", "\n", "c">>
    /\ Returns
    /\ ReportedWords = <<"3">>

Terminators == {".", "!", "?"}

\* C14: the sentence count reported is the number of occurrences of ".",
\* "!" and "?" in the text, adjacent ones counted each: 3 for "Hi...", 0 for
\* the empty text.
SentenceCountIsTerminators ==
    Calling("analyze_text")
    => /\ Returns
       /\ AllDigits(ReportedSentences)
       /\ DigitsVal(ReportedSentences, 0)
              = Cardinality({i \in 1..Len(call.text) : call.text[i] \in Terminators})
       /\ call.text = <<"H", "i", ".", ".", ".">> => ReportedSentences = <<"3">>
       /\ call.text = <<>> => ReportedSentences = <<"0">>

\* "Hi..." is counted as three sentences
AdjacentTerminatorsCounted ==
    /\ Calling("analyze_text")
    /\ call.text = <<"H", "i", ".", ".", ".">>
    /\ Returns
    /\ ReportedSentences = <<"3">>

\* s is a number of one decimal: [0-9]+\.[0-9]
IsTenths(s) ==
    /\ Len(s) >= 3
    /\ s[Len(s) - 1] = "."
    /\ \A i \in 1..Len(s) : i # Len(s) - 1 => s[i] \in Digits

NonSpaces(text) == Cardinality({i \in 1..Len(text) : text[i] # " "})

\* C15: the average word length reported is the number of characters other
\* than spaces divided by the word count, to the nearest tenth, when there
\* are words, and 0.0 when there are none; every text gets a result.
AverageIsNonSpacesPerWord ==
    Calling("analyze_text")
    => /\ Returns
       /\ IsTenths(ReportedAverage)
       /\ LET n == Cardinality(WordStarts(call.text))
              shown == QDec(FALSE, DigitsVal(ReportedAverage, 0), 1)
          IN  IF n = 0 THEN ReportedAverage = <<"0", ".", "0">>
              ELSE QLe(QAbs(QSub(shown, QDivInt(QDec(FALSE, NonSpaces(call.text), 0), n))),
                       QDec(FALSE, 5, 2))

\* a tab alone: one character other than spaces, no word, average 0.0
NoWordsAverageZero ==
    /\ Calling("analyze_text")
    /\ call.text = <<"\t">>
    /\ Returns
    /\ ReportedWords = <<"0">>
    /\ ReportedAverage = <<"0", ".", "0">>

\* five characters in three words: 1.7
AverageRounded ==
    /\ Calling("analyze_text")
    /\ call.text = <<"a", "\t", "b", "\n", "c">>
    /\ ReportedAverage = <<"1", ".", "7">>

\* --- make_recommendation ------------------------------------------------
RecommendationCategories == {<<"m", "o", "v", "i", "e">>, <<"r", "e", "s", "t", "a", "u", "r", "a", "n", "t">>, <<"b", "o", "o", "k">>}

\* the result for an entry picked: its name, its description and, when
\* preferences are given, the line that repeats them
Picked(entry) ==
    <<"I", " ", "r", "e", "c", "o", "m", "m", "e", "n", "d", ":", " ">> \o entry.name \o <<"\n">> \o entry.description
    \o (IF call.preferences = <<>> THEN <<>>
        ELSE <<"\n", "\n", "B", "a", "s", "e", "d", " ", "o", "n", " ", "y", "o",
          "u", "r", " ", "p", "r", "e", "f", "e", "r", "e", "n", "c", "e", "s",
          ":", " ">> \o call.preferences)

NoRecommendations ==
    <<"S", "o", "r", "r", "y", ",", " ", "I", " ", "d", "o", "n", "'", "t",
      " ", "h", "a", "v", "e", " ", "r", "e", "c", "o", "m", "m", "e", "n",
      "d", "a", "t", "i", "o", "n", "s", " ", "f", "o", "r", " ", "'">> \o call.category
    \o <<"'", ".", " ", "T", "r", "y", " ", "'", "m", "o", "v", "i", "e", "'",
         ",", " ", "'", "r", "e", "s", "t", "a", "u", "r", "a", "n", "t", "'",
         ",", " ", "o", "r", " ", "'", "b", "o", "o", "k", "'", ".">>

\* C17: for a category whose lowercased form is not exactly movie,
\* restaurant or book ("movies", "mov" and "" among them) the result is the
\* fixed message that lists the three categories, whatever the preferences,
\* and never an entry picked.
UnknownCategoryGetsFixedMessage ==
    (Calling("make_recommendation") /\ lower(call.category) \notin RecommendationCategories)
    => /\ Returns
       /\ outcome.value = NoRecommendations
       /\ ~StartsWith(outcome.value, <<"I", " ", "r", "e", "c", "o", "m", "m", "e", "n", "d">>)
       /\ \A c \in RecommendationCategories, i \in 1..3 :
            outcome.value # Picked(recommendations[c][i])

\* "movies" with preferences given: no partial match, the fixed message
PartialMatchRejected ==
    /\ Calling("make_recommendation")
    /\ call.category = <<"m", "o", "v", "i", "e", "s">>
    /\ call.preferences = <<"s", "c", "i", "-", "f", "i">>
    /\ Returns
    /\ outcome.value = NoRecommendations

\* --- calculate_tip, the percentage left out --------------------------------
Fifteen == Dec(FALSE, 150, 1)

\* C18: calculate_tip called without a tip percentage returns what it
\* returns when called with the same bill and a tip percentage of 15.0.
DefaultTipIsFifteenPercent ==
    (Calling("calculate_tip") /\ call.defaulted)
    => /\ Returns
       /\ outcome = calculate_tip(Float(call.bill_amount), Float(Fifteen))
       /\ QLe(Zero, Bill)
          => /\ Len(TipLines) = 3
             /\ StartsWith(TipLines[2], <<"T", "i", "p", " ", "(", "1", "5", ".", "0", "%", ")", ":", " ", "$">>)
             /\ Nearest(ShownAmount(2), QDivInt(QMulInt(Bill, 15), 100))

\* a bill of 100 and no percentage: a tip of $15.00, a total of $115.00
DefaultTipOf100 ==
    /\ Calling("calculate_tip")
    /\ call.defaulted
    /\ call.bill_amount = Dec(FALSE, 100, 0)
    /\ Returns
    /\ ShownAmount(2) = <<"1", "5", ".", "0", "0">>
    /\ ShownAmount(3) = <<"1", "1", "5", ".", "0", "0">>

\* --- make_recommendation, a known category ---------------------------------
KnownCategory(c) == lower(c) \in RecommendationCategories

\* the outcome of a call that picks entry i of the category's list
PickOutcome(c, preferences, i) ==
    Returned(<<"I", " ", "r", "e", "c", "o", "m", "m", "e", "n", "d", ":", " ">> \o recommendations[lower(c)][i].name \o <<"\n">>
             \o recommendations[lower(c)][i].description
             \o (IF preferences = <<>> THEN <<>>
                 ELSE <<"\n", "\n", "B", "a", "s", "e", "d", " ", "o", "n", " ", "y", "o",
          "u", "r", " ", "p", "r", "e", "f", "e", "r", "e", "n", "c", "e", "s",
          ":", " ">> \o preferences))

\* C16: for a category whose lowercased form is movie, restaurant or book
\* the result is one entry of the category's list of three, the name with
\* the description paired with it; and whatever calls came before, a call
\* can return each of the three entries.
OneEntryOfCategoryEachPossible ==
    /\ (Calling("make_recommendation") /\ KnownCategory(call.category))
       => /\ Len(recommendations[lower(call.category)]) = 3
          /\ \E i \in 1..3 :
               /\ outcome = PickOutcome(call.category, call.preferences, i)
               /\ \A j \in 1..3 :
                    outcome = PickOutcome(call.category, call.preferences, j) => j = i
    /\ Idle
       => \A c \in {x \in Categories : KnownCategory(x)}, p \in Preferences, i \in 1..3 :
            ENABLED (/\ MakeRecommendation
                     /\ call'.category = c
                     /\ call'.preferences = p
                     /\ outcome' = PickOutcome(c, p, i))

\* "Movie": the second movie, name and description, and the preferences
SecondMoviePicked ==
    /\ Calling("make_recommendation")
    /\ call.category = <<"M", "o", "v", "i", "e">>
    /\ call.preferences = <<"s", "c", "i", "-", "f", "i">>
    /\ outcome.value = <<"I", " ", "r", "e", "c", "o", "m", "m", "e", "n", "d", ":", " ", "I",
          "n", "c", "e", "p", "t", "i", "o", "n", "\n", "M", "i", "n", "d",
          "-", "b", "e", "n", "d", "i", "n", "g", " ", "s", "c", "i", "-", "f",
          "i", " ", "t", "h", "r", "i", "l", "l", "e", "r">>
                       \o <<"\n", "\n", "B", "a", "s", "e", "d", " ", "o", "n", " ", "y", "o",
          "u", "r", " ", "p", "r", "e", "f", "e", "r", "e", "n", "c", "e", "s",
          ":", " ", "s", "c", "i", "-", "f", "i">>

\* --- make_recommendation, the note on the preferences ----------------------
EndsWith(s, p) == Len(p) <= Len(s) /\ SubSeq(s, Len(s) - Len(p) + 1, Len(s)) = p

PreferencesNote == <<"\n", "\n", "B", "a", "s", "e", "d", " ", "o", "n", " ", "y", "o",
          "u", "r", " ", "p", "r", "e", "f", "e", "r", "e", "n", "c", "e", "s",
          ":", " ">>

\* the result is the name and the description of an entry of the category
\* followed by rest, and nothing else
EntryThen(rest) ==
    \E i \in 1..3 :
        outcome.value = <<"I", " ", "r", "e", "c", "o", "m", "m", "e", "n", "d", ":", " ">> \o recommendations[lower(call.category)][i].name
                        \o <<"\n">> \o recommendations[lower(call.category)][i].description
                        \o rest

\* C21: for a matched category the result ends with the note "Based on your
\* preferences: " and the preferences as given exactly when the preferences
\* are not the empty string; with preferences empty or left out the result
\* is the name and the description alone.
NoteIffPreferencesGiven ==
    (Calling("make_recommendation") /\ lower(call.category) \in RecommendationCategories)
    => /\ Returns
       /\ EndsWith(outcome.value, PreferencesNote \o call.preferences)
          <=> call.preferences # <<>>
       /\ In(<<"B", "a", "s", "e", "d", " ", "o", "n", " ", "y", "o", "u", "r", " ",
          "p", "r", "e", "f", "e", "r", "e", "n", "c", "e", "s">>, outcome.value) <=> call.preferences # <<>>
       /\ call.preferences # <<>> => EntryThen(PreferencesNote \o call.preferences)
       /\ call.preferences = <<>> => EntryThen(<<>>)
       /\ call.omitted => call.preferences = <<>>

\* "BOOK" with the preferences left out: a name and a description, no note
PreferencesLeftOut ==
    /\ Calling("make_recommendation")
    /\ call.category = <<"B", "O", "O", "K">>
    /\ call.omitted
    /\ Returns
    /\ outcome.value = <<"I", " ", "r", "e", "c", "o", "m", "m", "e", "n", "d", ":", " ", "A",
          "t", "o", "m", "i", "c", " ", "H", "a", "b", "i", "t", "s", "\n",
          "P", "r", "a", "c", "t", "i", "c", "a", "l", " ", "g", "u", "i", "d",
          "e", " ", "t", "o", " ", "b", "u", "i", "l", "d", "i", "n", "g", " ",
          "g", "o", "o", "d", " ", "h", "a", "b", "i", "t", "s">>

\* --- convert_temperature, a unit that is none of C, F and K ----------------
\* the scale a unit string is taken for
TakenFor(unit) == IF unit \in {<<"F">>, <<"K">>} THEN unit ELSE <<"C">>

\* the result reads <value>, the degree sign and from_unit, " = ", an amount
\* that is q to the nearest hundredth, the degree sign and to_unit
ShowsBetween(from_unit, q, to_unit) ==
    LET cut == Len(outcome.value) - Len(<<"°">> \o to_unit)
    IN  /\ EndsWith(outcome.value, <<"°">> \o to_unit)
        /\ \E n \in 4..cut :
            /\ Nearest(SubSeq(outcome.value, cut - n + 1, cut), q)
            /\ EndsWith(SubSeq(outcome.value, 1, cut - n), <<"°">> \o from_unit \o <<" ", "=", " ">>)

\* C26: with a from_unit or a to_unit that is none of "C", "F" and "K"
\* ("f", "X", "Fahrenheit") the result is no error: a from_unit other than
\* exactly "F" or "K" is taken for Celsius, a to_unit other than exactly "F"
\* or "K" is taken for Celsius, and both unit strings stand in the result as
\* they were given.
UnknownUnitTakenForCelsius ==
    (Calling("convert_temperature")
        /\ (call.from_unit \notin Scales \/ call.to_unit \notin Scales))
    => /\ Returns
       /\ ~IsError(outcome.value)
       /\ ShowsBetween(call.from_unit,
                       StatedTarget(StatedCelsius(Temperature, TakenFor(call.from_unit)),
                                    TakenFor(call.to_unit)),
                       call.to_unit)

\* 212 "f" to "K": the value is taken for 212 Celsius, not 212 Fahrenheit
LowercaseUnitTakenForCelsius ==
    /\ Calling("convert_temperature")
    /\ call.value = Dec(FALSE, 212, 0)
    /\ call.from_unit = <<"f">>
    /\ call.to_unit = <<"K">>
    /\ Returns
    /\ outcome.value = <<"2", "1", "2", ".", "0", "°", "f", " ", "=", " ", "4", "8", "5", ".",
          "1", "5", "°", "K">>

\* --- get_news_headlines, a topic that matches several categories -----------
\* the categories in the order of the table
TableOrder == <<<<"t", "e", "c", "h", "n", "o", "l", "o", "g", "y">>, <<"s", "p", "o", "r", "t", "s">>, <<"b", "u", "s", "i", "n", "e", "s", "s">>>>

SeveralMatch == Cardinality({c \in NewsCategories : TopicMatches(c)}) >= 2

\* the first category of the table the topic matches
FirstMatching ==
    TableOrder[CHOOSE i \in 1..Len(TableOrder) :
                /\ TopicMatches(TableOrder[i])
                /\ \A j \in 1..(i - 1) : ~TopicMatches(TableOrder[j])]

\* C27: when the topic matches more than one category ("s", "o", the empty
\* topic, "sports business") and headlines are returned, they are those of
\* the first matching category in the order technology, sports, business and
\* of no other; the empty topic gets technology. The category is fixed by the
\* topic alone, the same at every call.
FirstMatchingCategoryUsed ==
    (Calling("get_news_headlines") /\ call.num_headlines >= 1 /\ SeveralMatch)
    => /\ NewsShape
       /\ ReturnedCount >= 1
       /\ DrawnFrom(FirstMatching)
       /\ \A other \in NewsCategories \ {FirstMatching} : ~DrawnFrom(other)
       /\ call.topic = <<>> => DrawnFrom(<<"t", "e", "c", "h", "n", "o", "l", "o", "g", "y">>)

\* "business sports" names business first: sports, first in the table, is used
TableOrderNotTopicOrder ==
    /\ Calling("get_news_headlines")
    /\ call.topic = <<"b", "u", "s", "i", "n", "e", "s", "s", " ", "s", "p", "o", "r", "t",
          "s">>
    /\ call.num_headlines = 1
    /\ NewsShape
    /\ ReturnedCount = 1
    /\ DrawnFrom(<<"s", "p", "o", "r", "t", "s">>)

\* --- agent_sequential: the content creation pipeline -----------------------
Sequential == app = "app.agent_sequential"

Stages == <<"research_collector", "content_drafter", "content_polisher">>

StageKeys == <<"research_findings", "draft_content", "final_content">>

HasRun(name) == activation[name].pc # "idle"

HasEnded(name) == activation[name].pc = "done"

\* what the agent found for the key when its instruction was filled in
FilledIn(name, key) == activation[name].instruction[key]

\* C22: in the pipeline the stages run one at a time in the order
\* research_collector, content_drafter, content_polisher, each starting only
\* when the one before has ended; what content_drafter finds under
\* research_findings is what research_collector has written in this run, what
\* content_polisher finds under draft_content is what content_drafter has
\* written, and the keys are written in the order research_findings,
\* draft_content, final_content, final_content last.
StagesRunInOrder ==
    Sequential
    => /\ Cardinality({i \in 1..3 : activation[Stages[i]].pc = "running"}) <= 1
       /\ \A i \in 2..3 : HasRun(Stages[i]) => \A j \in 1..(i - 1) : HasEnded(Stages[j])
       /\ \A i \in 2..3 :
            HasRun(Stages[i])
            => /\ activation[Stages[i - 1]].output # Missing
               /\ FilledIn(Stages[i], StageKeys[i - 1]) = activation[Stages[i - 1]].output
       /\ \A i \in DOMAIN written : written[i] = StageKeys[((i - 1) % 3) + 1]
       /\ HasEnded("content_creation_pipeline")
          => /\ written # <<>>
             /\ written[Len(written)] = "final_content"
             /\ Len(written) % 3 = 0

\* content_polisher at work on the draft that content_drafter wrote
PolisherReadsDraft ==
    /\ Sequential
    /\ activation["content_polisher"].pc = "running"
    /\ activation["research_collector"].output = "text 1"
    /\ activation["content_drafter"].output = "text 2"
    /\ FilledIn("content_polisher", "draft_content") = "text 2"
    /\ written = <<"research_findings", "draft_content">>

\* --- agent_parallel: the experts and the synthesizer ------------------------
Parallel == app = "app.agent_parallel"

\* C23: the synthesizer runs only after tech_expert and business_expert have
\* ended: whenever its instruction is filled in, tech_analysis and
\* business_analysis have been written.
SynthesizerAfterBothExperts ==
    (Parallel /\ HasRun("synthesizer"))
    => /\ FilledIn("synthesizer", "tech_analysis") # Missing
       /\ FilledIn("synthesizer", "business_analysis") # Missing

\* C24: tech_expert and business_expert write to two different keys; however
\* their steps interleave, from the time an expert has ended its key holds
\* its own output, whatever the other expert writes, so that when both have
\* ended each key holds the output of its own expert.
ExpertsKeepOwnKeys ==
    Parallel
    => /\ tech_expert.output_key # business_expert.output_key
       /\ HasEnded("tech_expert")
          => session_state["tech_analysis"] = activation["tech_expert"].output
       /\ HasEnded("business_expert")
          => session_state["business_analysis"] = activation["business_expert"].output

\* both experts have ended, business_expert first, with different texts
BusinessExpertEndedFirst ==
    /\ Parallel
    /\ HasEnded("tech_expert")
    /\ HasEnded("business_expert")
    /\ written = <<"business_analysis", "tech_analysis">>
    /\ session_state["tech_analysis"] = "text 1"
    /\ session_state["business_analysis"] = "text 2"

\* --- agent_hierarchical: root, departments, specialists ---------------------
Hierarchical == app = "app.agent_hierarchical"

Root == "enterprise_assistant"

Departments == {"finance_department", "customer_service_department", "research_department"}

SpecialistsOf ==
    [department \in Departments |->
        IF department = "finance_department"
        THEN {"stock_analyst", "financial_news_analyst"}
        ELSE IF department = "customer_service_department"
        THEN {"recommendation_specialist", "calculation_assistant"}
        ELSE {"content_analyst", "news_researcher"}]

Specialists == UNION {SpecialistsOf[department] : department \in Departments}

Hierarchy == agent_tree(root_agent["app.agent_hierarchical"])

Children(agent) == {agent.sub_agents[i].name : i \in DOMAIN agent.sub_agents}

\* the tree: three departments under the root, two specialists under each
\* department, each specialist under one agent only, tools with the
\* specialists only
ThreeLevelTree ==
    /\ root_agent["app.agent_hierarchical"].name = Root
    /\ {agent.name : agent \in Hierarchy} = {Root} \cup Departments \cup Specialists
    /\ \A agent \in Hierarchy :
        /\ agent.name = Root
           => Len(agent.sub_agents) = 3 /\ Children(agent) = Departments
        /\ agent.name \in Departments
           => Len(agent.sub_agents) = 2 /\ Children(agent) = SpecialistsOf[agent.name]
        /\ agent.name \in Specialists => agent.sub_agents = <<>>
        /\ agent.tools # {} <=> agent.name \in Specialists
    /\ \A name \in Specialists :
        Cardinality({agent \in Hierarchy : name \in Children(agent)}) = 1

\* the agent was started by caller, who waits for it
StartedBy(name, caller) ==
    /\ activation[name].caller = caller
    /\ caller # "user" => activation[caller].pc = "waiting"

\* C25: the root enterprise_assistant has the three departments as its
\* children and no other, each department has two specialists, each
\* specialist is under one department only, and only specialists have tools.
\* A specialist at work was started by its own department, which was started
\* by the root, which was started by the user; each waits for the one it
\* started, so that the answer goes back specialist, department, root, user.
\* Tools are called by specialists only.
DelegationFollowsTree ==
    Hierarchical
    => /\ ThreeLevelTree
       /\ HasRun(Root) => StartedBy(Root, "user")
       /\ \A department \in Departments :
            /\ HasRun(department) => StartedBy(department, Root) /\ HasRun(Root)
            /\ \A specialist \in SpecialistsOf[department] :
                HasRun(specialist)
                => StartedBy(specialist, department) /\ HasRun(department)
       /\ \A name \in agent_names :
            activation[name].tool_calls > 0 => name \in Specialists

\* calculation_assistant has called convert_temperature and has ended; its
\* department and the root wait
SpecialistAnswersThroughDepartment ==
    /\ Hierarchical
    /\ HasEnded("calculation_assistant")
    /\ activation["calculation_assistant"].tool = "convert_temperature"
    /\ activation["customer_service_department"].pc = "waiting"
    /\ activation[Root].pc = "waiting"

\* --- calls from several threads ----------------------------------------------
InCall(t) == frames[t].pc # "idle"

\* the call of the frame can return the outcome when it runs with no other
\* call beside it: the function gives it for something it can draw
AloneCanReturn(frame, result) ==
    IF frame.fn = "get_stock_price"
    THEN \E r \in ThreadRandomUnit : result = get_stock_price(frame.args.symbol, r)
    ELSE IF frame.fn = "get_news_headlines"
    THEN \E perm \in Orders(Len(matching_headlines(frame.args.topic))) :
            result = get_news_headlines(frame.args.topic, frame.args.num_headlines, perm)
    ELSE IF frame.fn = "make_recommendation"
    THEN \E pick \in 1..3 :
            result = make_recommendation(frame.args.category, frame.args.preferences, pick)
    ELSE IF frame.fn = "calculate_tip"
    THEN result = calculate_tip(Float(frame.args.bill_amount),
                                Float(frame.args.tip_percentage))
    ELSE IF frame.fn = "convert_temperature"
    THEN result = convert_temperature(Float(frame.args.value), frame.args.from_unit,
                                      frame.args.to_unit)
    ELSE result = analyze_text(frame.args.text)

\* C19: however the calls of the threads interleave, the price table, the
\* headline table and the recommendation table of a call stay as they were
\* built; a call returns nothing it could not return when run alone; and at
\* each of its draws from the random source, the one thing the calls share,
\* every value it could draw alone can be drawn, so that all it could return
\* alone it can still return.
ConcurrentCallsDoNotInterfere ==
    \A t \in Threads :
        /\ InCall(t) => frames[t].table = table_of(frames[t].fn)
        /\ frames[t].pc = "returned" => AloneCanReturn(frames[t], frames[t].result)
        /\ (frames[t].pc = "running" /\ Len(frames[t].draws) < frames[t].needed)
           => \A v \in draw_choices(frames[t]) :
                ENABLED (/\ Draw(t)
                         /\ frames'[t].draws = Append(frames[t].draws, v))

\* two threads in the middle of random.sample at once, one draw made by each
TwoSamplesInterleaved ==
    /\ \A t \in Threads :
        /\ InCall(t)
        /\ frames[t].fn = "get_news_headlines"
        /\ frames[t].pc = "running"
        /\ frames[t].needed = 2
        /\ Len(frames[t].draws) = 1
    /\ frames[1].table = headlines_db

====
